---------------------------- MODULE Spec2Model ----------------------------
(***************************************************************************)
(* Forward Manager of pedicab: the reconcile loop (load_rules), start_rule, *)
(* stop_rule and restart_rule of src/src/forward/manager.rs, the rule       *)
(* repository of src/pedicab_db/src/dal/rule.rs they read and write, and    *)
(* the binding phase of the forwarders of src/src/forward/{tcp,udp}.rs.     *)
(*                                                                         *)
(* Two threads of manager code run: "lr", the polling loop, and "api", one  *)
(* control-plane request (GET /fm/restart/{id}) at a time.  Every await of  *)
(* the Rust code is a point where the other thread, the operator's          *)
(* repository calls and the spawned forwarder tasks may interleave; code    *)
(* between two awaits that touches only local or locked state is one step.  *)
(***************************************************************************)
EXTENDS Integers, Sequences, FiniteSets, TLC

\* ------------------------------------------------------------------ bounds
MaxOps == 2            \* operator requests (repository calls, restarts) per run
MaxTasks == 3          \* forwarder instances that exist at the same time
MaxConns == 2          \* TCP connections that arrive in a run
MaxBytes == 1          \* units of payload relayed in a run
MaxFlushes == 1        \* calls of flush_stats in a run
MaxCalls == 3          \* repository calls of the concurrent callers in a run
MaxAddrs == 3          \* addresses of a rule's target
MaxPicks == 4          \* target selections in a run
MaxTime == 10          \* the clock stops here
ChannelCap == 1        \* capacity of a session channel (100 in the program)
MaxDatagrams == 2      \* datagrams a session relays in each direction
MaxStream == 3         \* bytes a source sends in a relay direction
BufferSize == 2        \* config.buffer_size, in bytes
LargePayload == 16000  \* payloads above this get the fragment fallback
fragment_size == 8192  \* let fragment_size = 8192
FragmentCode == 40     \* the error code that starts the fragments
CleanEvery == 3        \* period of the client cleaner: 30 s
IdleLimit == 6         \* idle time after which an entry is dropped: 60 s
CounterMod == 16       \* modulus of the connection counter (u64, reduced)

RuleIds == {1, 2}      \* rule ids, in index (creation) order
Ports == {1, 2}        \* listen endpoints
Targets == {1, 2}      \* target lists
Configs == {0, 1}      \* RuleConfig values
Names == {"n1", "n2"}  \* name / remarks values
Handles == 1..MaxTasks
Procs == {"lr", "api"}
Conns == 1..MaxConns
Callers == {1, 2}
UdpClients == {1, 2}

Max(S) == CHOOSE x \in S : \A y \in S : y <= x
Min(S) == CHOOSE x \in S : \A y \in S : x <= y

\* ------------------------------------------------------------- data model
RuleProtocol == {"Tcp", "Udp", "TcpUdp"}
RuleStatus == {"Running", "Stopped", "Error"}

\* A slot of the store: present = the key exists and its id is in the index.
NoRule ==
  [present |-> FALSE, listen |-> 1, target |-> 1, protocol |-> "Tcp",
   config |-> 0, name |-> "n1", enabled |-> FALSE, status |-> "Stopped"]

Rule(listen, target, protocol, config, name, enabled, status) ==
  [present |-> TRUE, listen |-> listen, target |-> target,
   protocol |-> protocol, config |-> config, name |-> name,
   enabled |-> enabled, status |-> status]

ProtocolCode(p) == CASE p = "Tcp" -> 0 [] p = "Udp" -> 1 [] OTHER -> 2

\* A digest that also covers the name.
digest_with_name(r) ==
  (((r.listen * 4 + r.target) * 4 + ProtocolCode(r.protocol)) * 4 + r.config) * 2
    + (IF r.name = "n1" THEN 0 ELSE 1)

\* Rule::digest_config: the hash of the encoding of listen, target, protocol
\* and config, in that order (an injective encoding of the four fields).
digest_config(r) ==
  ((r.listen * 4 + r.target) * 4 + ProtocolCode(r.protocol)) * 4 + r.config

\* ------------------------------------------------------------------ state
VARIABLES
  db,          \* the store: RuleIds -> rule slot
  nextId,      \* the next id create assigns
  rules,       \* ForwardManager.rules: sequence of <<id, digest>>
  tasks,       \* ForwardManager.tasks: RuleIds -> handle, 0 = no entry
  fw,          \* forwarder instances: Handles -> instance
  rulesLock,   \* holder of the write lock on rules: "free", "lr" or "api"
  tasksLock,   \* holder of the write lock on tasks
  pc,          \* Procs -> position in the manager code
  arg,         \* Procs -> the id start_rule / stop_rule was called with
  ret,         \* Procs -> where the running start_rule / stop_rule returns to
  found,       \* Procs -> listen and protocol of the rule start_rule loaded
  task,        \* Procs -> the handle stop_rule removed from tasks, 0 = None
  db_rules,    \* load_rules: the find_all snapshot
  cursor,      \* load_rules: position in the loop it is in
  constructed, \* ForwardManager::new has returned
  ops,         \* operator requests made so far
  limit,       \* connection limits: of the rule's config and of the agent
  conn,        \* Conns -> the connection and its handler task
  upd,         \* Conns -> the stats updater task of the connection
  cache,       \* stats_cache: RuleIds -> entry
  db_stats,    \* the stats field of the persisted rules: their bandwidth
  flushes,     \* calls of flush_stats so far
  store,       \* the sled tree, rule keys: RuleIds -> stored rule
  index,       \* the sled tree, key __rule_index: sequence of ids
  nid,         \* the next fresh id of RuleDataAccessLayer::create
  req,         \* Callers -> the repository call the caller is in
  calls,       \* repository calls started so far
  policy,      \* rule.target.policy of the rule under traffic
  addrs,       \* rule.target.addrs.len() of that rule
  picks,       \* the targets chosen so far: sequence of [proto, index]
  now,         \* the clock of the UDP forwarder, in units of ten seconds
  clients,     \* the client table: UdpClients -> entry
  chan,        \* UdpClients -> the session channel of the client's entry
  ingress,     \* the ingress loop: receiving, or inside sender.send
  cleaner,     \* the client-cleanup task
  reported,    \* connections.udp as the stats updater last wrote it
  sess,        \* one UDP session task, its two channels and its helper
  relay,       \* one direction of a TCP connection's relay
  frag,        \* one payload a UDP session sends to the target
  speed        \* one tick of a stats updater: its inputs and result

\* The data plane: connections, the stats cache and its flush.
traffic == <<limit, conn, upd, cache, db_stats, flushes>>

\* The repository under concurrent callers.
repo == <<store, index, nid, req, calls>>

\* What neither the manager nor the data plane touches.
\* The choice of targets.
sel == <<policy, addrs, picks>>

\* The UDP forwarder.
udp == <<now, clients, chan, ingress, cleaner, reported>>

\* Single tasks followed on their own: a UDP session, a relay direction,
\* the send of a session payload and the speed of an updater tick.
paths == <<sess, relay, frag, speed>>

rest == <<repo, sel, udp, paths>>

vars == <<db, nextId, rules, tasks, fw, rulesLock, tasksLock, pc, arg, ret,
          found, task, db_rules, cursor, constructed, ops, traffic, rest>>

\* --------------------------------------------------------------- forwarders
\* One instance per registered JoinHandle.  tcp / udp are the forwarder
\* tasks behind it: "none", "starting" (spawned, bind not yet done), "bound"
\* (listening), "cancelling" (abort requested, socket not yet dropped),
\* "exited".  For TcpUdp the handle is the supervisor of both.
NoTask == [rule |-> 0, listen |-> 0, protocol |-> "none", tcp |-> "none", udp |-> "none"]

Alive(c) == c \in {"starting", "bound", "cancelling"}
Holds(c) == c \in {"bound", "cancelling"}

InstanceAlive(t) == Alive(t.tcp) \/ Alive(t.udp)

\* A handle whose tasks have all ended: only the rule it belongs to is left.
Ended(id) == [rule |-> id, listen |-> 0, protocol |-> "none", tcp |-> "exited", udp |-> "exited"]

\* Instances whose tasks are all gone and whose handle no table entry holds
\* leave no trace: their slots are reused.
Collect(f, t) ==
  [h \in Handles |->
     IF InstanceAlive(f[h]) THEN f[h]
     ELSE IF \A r \in RuleIds : t[r] # h THEN NoTask
     ELSE Ended(f[h].rule)]

IsFree(h) ==
  /\ fw[h] = NoTask
  /\ \A r \in RuleIds : tasks[r] # h
  /\ \A p \in Procs : task[p] # h
  /\ \A c \in Conns : conn[c].owner # h
FreeHandles == {h \in Handles : IsFree(h)}
NewHandle == CHOOSE h \in FreeHandles : \A g \in FreeHandles : h <= g

\* tokio::spawn(start_tcp_forward(..)) / start_udp_forward / both under a
\* supervisor, by protocol (start_rule's match).
SpawnFor(id, r) ==
  [rule |-> id, listen |-> r.listen, protocol |-> r.protocol,
   tcp |-> IF r.protocol \in {"Tcp", "TcpUdp"} THEN "starting" ELSE "none",
   udp |-> IF r.protocol \in {"Udp", "TcpUdp"} THEN "starting" ELSE "none"]

\* JoinHandle::abort on the registered handle.  A Tcp or Udp handle is the
\* forwarder task itself: it is cancelled, and a bound socket is dropped
\* when the runtime next polls the task.  A TcpUdp handle is the supervisor:
\* aborting it drops the two JoinHandles it awaits, which detaches the
\* forwarder tasks and leaves them running.
AbortChild(c) ==
  CASE c = "starting" -> "exited"
    [] c = "bound" -> "cancelling"
    [] OTHER -> c

Abort(t) ==
  IF t.protocol = "TcpUdp" THEN t
  ELSE [t EXCEPT !.tcp = AbortChild(t.tcp), !.udp = AbortChild(t.udp)]

\* The endpoint (kind, port) is held by a live socket of some forwarder.
PortBusy(kind, port) ==
  \E h \in Handles : fw[h].listen = port /\ Holds(fw[h][kind])

\* ------------------------------------------------------------- repository
\* RuleDataAccessLayer::update_status: NotFound leaves the store unchanged.
update_status(d, id, status) ==
  IF d[id].present THEN [d EXCEPT ![id].status = status] ELSE d

\* RuleDataAccessLayer::enable / disable.
enable(d, id) == [d EXCEPT ![id].enabled = TRUE, ![id].status = "Stopped"]
disable(d, id) == [d EXCEPT ![id].enabled = FALSE, ![id].status = "Stopped"]

\* RuleDataAccessLayer::delete: removes the key and the id from the index.
delete(d, id) == [d EXCEPT ![id] = NoRule]

\* find_all: the rules of the index, in index order.
IndexOrder(d) == {id \in RuleIds : d[id].present}

NoFound == [listen |-> 0, protocol |-> "none"]
NoSnapshot == [r \in RuleIds |-> NoRule]

\* ----------------------------------------------------------- stats cache
\* RuleStats, as far as the model follows it: bandwidth and connections.tcp.
\* present = the cache holds an entry for the id.
NoEntry == [present |-> FALSE, bandwidth |-> 0, tcp |-> 0]

\* RuleStats::default(), inserted.
DefaultStats == [present |-> TRUE, bandwidth |-> 0, tcp |-> 0]

\* stats_cache.get(&id).await.unwrap_or_default()
GetOrDefault(id) == IF cache[id].present THEN cache[id] ELSE DefaultStats

\* A connection that has not arrived, and the updater no connection has.
NoConn == [st |-> "new", owner |-> 0, rule |-> 0, sent |-> 0, bytes |-> 0,
           prev |-> NoEntry]
NoUpd == [st |-> "none", bytes |-> 0, prev |-> NoEntry]

\* ForwardManager::new seeds the cache with the persisted stats of every
\* rule; nothing has connected and no flush runs.
NoTraffic ==
  /\ conn = [c \in Conns |-> NoConn]
  /\ upd = [c \in Conns |-> NoUpd]
  /\ cache = [id \in RuleIds |-> IF db[id].present THEN DefaultStats ELSE NoEntry]
  /\ db_stats = [id \in RuleIds |-> 0]
  /\ flushes = 0

\* ----------------------------------------------- repository, step by step
\* A stored rule, as far as the calls below tell its fields apart.
NoKey == [present |-> FALSE, enabled |-> FALSE, status |-> "Stopped", stats |-> 0]
StoredRule(enabled, status, stats) ==
  [present |-> TRUE, enabled |-> enabled, status |-> status, stats |-> stats]

\* A caller outside any repository call.
NoReq == [op |-> "none", st |-> "idle", id |-> 0, status |-> "Stopped", stats |-> 0,
          ids |-> <<>>, rule |-> NoKey, out |-> <<>>, res |-> "none"]

\* No repository call is under way and none will be.
RepoIdle ==
  /\ store = [id \in RuleIds |-> NoKey]
  /\ index = <<>>
  /\ nid = 1
  /\ req = [c \in Callers |-> NoReq]
  /\ calls = 0

\* No target is chosen.
SelIdle == policy = "Fallback" /\ addrs = 1 /\ picks = <<>>

\* The client table of a UDP forwarder, and the channel to the session
\* task of an entry: open while the session holds the receiver.
NoClient == [present |-> FALSE, last_active |-> 0]
NoChannel == [open |-> FALSE, len |-> 0]

\* A UDP forwarder that has just bound its socket: no client yet, the
\* cleaner's interval fires its first tick at once.
UdpIdle ==
  /\ now = 0
  /\ clients = [a \in UdpClients |-> NoClient]
  /\ chan = [a \in UdpClients |-> NoChannel]
  /\ ingress = [st |-> "recv", client |-> 0]
  /\ cleaner = [st |-> "wait", now |-> 0, next |-> 0]
  /\ reported = 0

\* No session, relay, payload or updater tick is followed.
NoSession == [st |-> "off", entry |-> FALSE, inq |-> 0, helper |-> "none",
              outq |-> 0, toTarget |-> 0, toClient |-> 0]
NoRelay == [st |-> "off", whole |-> <<>>, src |-> <<>>, buffer |-> <<>>, n |-> 0,
            rd |-> <<>>, wr |-> <<>>]
NoPayload == [st |-> "off", platform |-> "linux", len |-> 0, offset |-> 0,
              sent |-> <<>>]
NoTick == [st |-> "off", prev |-> 0, bytes |-> 0, elapsed |-> 0, tcp |-> 0, udp |-> 0]

PathsIdle ==
  /\ sess = NoSession
  /\ relay = NoRelay
  /\ frag = NoPayload
  /\ speed = NoTick

RestIdle == RepoIdle /\ SelIdle /\ UdpIdle /\ PathsIdle

\* --------------------------------------------------------------- Init
\* The store as an earlier run left it: rule 1 enabled, with the status that
\* run ended with; rule 2 never created, or created and left disabled.
StoredRules ==
  {d \in [RuleIds -> {NoRule} \cup
            {Rule(1, 1, "Tcp", 0, "n1", e, s) : e \in BOOLEAN, s \in RuleStatus}] :
     /\ d[1].present /\ d[1].enabled /\ d[1].status \in {"Stopped", "Running"}
     /\ d[2].present => ~d[2].enabled /\ d[2].status = "Stopped"}

Init ==
  /\ db \in StoredRules
  /\ nextId = 1 + Max({0} \cup {id \in RuleIds : db[id].present})
  /\ rules = <<>>
  /\ tasks = [r \in RuleIds |-> 0]
  /\ fw = [h \in Handles |-> NoTask]
  /\ rulesLock = "free"
  /\ tasksLock = "free"
  /\ pc = [p \in Procs |-> "idle"]
  /\ arg = [p \in Procs |-> 0]
  /\ ret = [p \in Procs |-> "idle"]
  /\ found = [p \in Procs |-> NoFound]
  /\ task = [p \in Procs |-> 0]
  /\ db_rules = NoSnapshot
  /\ cursor = 0
  /\ constructed = FALSE
  /\ ops = 0
  /\ limit = [rule |-> {}, agent |-> {}]
  /\ NoTraffic
  /\ RestIdle

\* ------------------------------------------------------------- load_rules
Supervised(rs) == {rs[i][1] : i \in 1..Len(rs)}

\* The digest the supervised list holds for id (the first pair with the id).
DigestOf(rs, id) == rs[Min({i \in 1..Len(rs) : rs[i][1] = id})][2]

\* "stop disabled rules": no rule of the snapshot has this id and is enabled.
MustStop(snap, id) == ~(snap[id].present /\ snap[id].enabled)

\* "start enabled rules": enabled and not in the supervised list.
MustStart(snap, rs, id) == snap[id].enabled /\ id \notin Supervised(rs)

\* "restart changed rules": in the supervised list with another digest.
MustRestart(snap, rs, id) ==
  id \in Supervised(rs) /\ DigestOf(rs, id) # digest_config(snap[id])

\* The rules the second loop visits: db_rules filtered by status != Error.
Visited(snap) == {id \in RuleIds : snap[id].present /\ snap[id].status # "Error"}

\* wanted_rules: (id, digest) of the snapshot's rules that are enabled and
\* not in Error, in index order.
Wanted(r) == r.present /\ r.enabled /\ r.status # "Error"

RECURSIVE WantedFrom(_, _)
WantedFrom(snap, id) ==
  IF id \notin RuleIds THEN <<>>
  ELSE (IF Wanted(snap[id]) THEN <<(<<id, digest_config(snap[id])>>)>> ELSE <<>>)
       \o WantedFrom(snap, id + 1)

wanted_rules(snap) == WantedFrom(snap, 1)

\* A position of a thread of manager code: the step it takes next (pc), the
\* id of the call it is in (arg), where that call returns to (ret), the loop
\* position of load_rules (cursor), and whether load_rules has reached its
\* end (commit: the supervised list is replaced, the guard dropped).
Call(fn, id, r, c) == [pc |-> fn, arg |-> id, ret |-> r, cursor |-> c, commit |-> FALSE]
Finished(done) == [pc |-> "idle", arg |-> 0, ret |-> "idle", cursor |-> 0, commit |-> done]

\* load_rules from position c of loop `loop` ("stop": the first loop, over
\* the supervised list rs; "start": the second, over the snapshot) up to its
\* next call of stop_rule or start_rule, or to its end.
LoadNext(snap, rs, loop, c) ==
  LET stops == IF loop = "stop"
                 THEN {i \in c..Len(rs) : MustStop(snap, rs[i][1])} ELSE {}
      from == IF loop = "stop" THEN 1 ELSE c
      todo == {id \in Visited(snap) :
                 /\ id >= from
                 /\ MustStart(snap, rs, id) \/ MustRestart(snap, rs, id)}
  IN IF stops # {}
       THEN Call("stop_lock", rs[Min(stops)][1], "lr_stop", Min(stops) + 1)
     ELSE IF todo = {}
       THEN Finished(TRUE)
     ELSE IF MustStart(snap, rs, Min(todo))
       THEN Call("start_find", Min(todo), "lr_digest", Min(todo))
     ELSE Call("stop_lock", Min(todo), "lr_restart", Min(todo))

\* load_rules after a call returned to r; its result is discarded (let _ =).
\* After the start of an enabled rule comes the digest test of the same
\* rule; after the stop of a changed rule comes its start.
LoadAfter(snap, rs, r, c) ==
  CASE r = "lr_stop" -> LoadNext(snap, rs, "stop", c)
    [] r = "lr_digest" ->
         IF MustRestart(snap, rs, c)
           THEN Call("stop_lock", c, "lr_restart", c)
           ELSE LoadNext(snap, rs, "start", c + 1)
    [] r = "lr_restart" -> Call("start_find", c, "lr_next", c)
    [] OTHER -> LoadNext(snap, rs, "start", c + 1)

\* restart_rule: self.stop_rule(id).await?; self.start_rule(id).await?;
RestartAfter(id, r, result) ==
  IF r = "restart_stop" /\ result = "ok"
    THEN Call("start_find", id, "restart_start", 0)
    ELSE Finished(FALSE)

\* Thread p goes on to position k; rs is the supervised list and lock the
\* holder of its lock as the step leaves them.
Goto(p, k, rs, lock) ==
  /\ pc' = [pc EXCEPT ![p] = k.pc]
  /\ arg' = [arg EXCEPT ![p] = k.arg]
  /\ ret' = [ret EXCEPT ![p] = k.ret]
  /\ cursor' = IF p = "lr" THEN k.cursor ELSE cursor
  /\ rules' = IF k.commit THEN wanted_rules(db_rules) ELSE rs
  /\ rulesLock' = IF k.commit THEN "free" ELSE lock
  /\ db_rules' = IF k.commit THEN NoSnapshot ELSE db_rules
  /\ constructed' = (constructed \/ k.commit)

\* start_rule or stop_rule of thread p returns result to its caller.
Return(p, result, rs, lock) ==
  Goto(p, IF p = "lr" THEN LoadAfter(db_rules, rs, ret[p], cursor)
          ELSE RestartAfter(arg[p], ret[p], result), rs, lock)

\* let db_rules = self.dal.rule.find_all().await (in ForwardManager::new
\* and on every tick of start_polling).
LoadFindAll ==
  /\ pc["lr"] = "idle"
  /\ db_rules' = db
  /\ pc' = [pc EXCEPT !["lr"] = "lr_lock"]
  /\ UNCHANGED <<rest, traffic, db, nextId, rules, tasks, fw, rulesLock, tasksLock, arg, ret,
                 found, task, cursor, constructed, ops>>

\* find_all fails with a storage or codec error: unwrap_or_else logs it and
\* gives Vec::new(), the snapshot of a store without rules.
LoadFindAllFails ==
  /\ pc["lr"] = "idle"
  /\ db_rules' = NoSnapshot
  /\ pc' = [pc EXCEPT !["lr"] = "lr_lock"]
  /\ UNCHANGED <<rest, traffic, db, nextId, rules, tasks, fw, rulesLock, tasksLock, arg, ret,
                 found, task, cursor, constructed, ops>>

\* The write lock on rules can be taken when nobody holds it: tokio's
\* RwLock is not reentrant, the holder itself waits like anybody else.
CanLockRules(p) == rulesLock = "free"

\* let mut current_rules = self.rules.write().await; and on into the loops.
LoadLock ==
  /\ pc["lr"] = "lr_lock"
  /\ CanLockRules("lr")
  /\ Goto("lr", LoadNext(db_rules, rules, "stop", 1), rules, "lr")
  /\ UNCHANGED <<rest, traffic, db, nextId, tasks, fw, tasksLock, found, task, ops>>

\* ------------------------------------------------------------- start_rule
\* A start_rule that tests only whether the rule is persisted, not its
\* enabled flag.
start_rule_unchecked(r) ==
  IF ~r.present THEN "rule not found" ELSE "none"

\* The two early returns of start_rule on the record r that find_by_id
\* gave: bail!("rule not found") for None, bail!("rule is disabled") for
\* a rule whose enabled flag is false; "none" when it goes on.
start_rule_error(r) ==
  IF ~r.present THEN "rule not found"
  ELSE IF ~r.enabled THEN "rule is disabled"
  ELSE "none"

\* find_by_id, then the two early returns.
StartFind(p) ==
  /\ pc[p] = "start_find"
  /\ IF start_rule_error(db[arg[p]]) = "none"
       THEN /\ found' = [found EXCEPT ![p] =
                           [listen |-> db[arg[p]].listen,
                            protocol |-> db[arg[p]].protocol]]
            /\ pc' = [pc EXCEPT ![p] = "start_spawn"]
            /\ UNCHANGED <<arg, ret, cursor, rules, rulesLock, db_rules, constructed>>
       ELSE /\ Return(p, start_rule_error(db[arg[p]]), rules, rulesLock)
            /\ found' = found
  /\ UNCHANGED <<rest, traffic, db, nextId, tasks, fw, tasksLock, task, ops>>

\* tasks.insert(id, handle): the entry now holds the new handle; a handle
\* that was there is dropped, which detaches its task without aborting it.
InsertTask(t, id, h) == [t EXCEPT ![id] = h]

\* self.tasks.write().await; tokio::spawn(..); tasks.insert(..).
StartSpawn(p) ==
  /\ pc[p] = "start_spawn"
  /\ tasksLock = "free"
  /\ FreeHandles # {}
  /\ LET h == NewHandle
         t == InsertTask(tasks, arg[p], h)
     IN /\ tasks' = t
        /\ fw' = Collect([fw EXCEPT ![h] = SpawnFor(arg[p], found[p])], t)
  /\ tasksLock' = p
  /\ found' = [found EXCEPT ![p] = NoFound]
  /\ pc' = [pc EXCEPT ![p] = "start_status"]
  /\ UNCHANGED <<rest, traffic, db, nextId, rules, rulesLock, arg, ret, task, db_rules,
                 cursor, constructed, ops>>

\* self.dal.rule.update_status(id, Running).await?; the tasks guard is
\* dropped when start_rule returns.
StartStatus(p) ==
  /\ pc[p] = "start_status"
  /\ db' = update_status(db, arg[p], "Running")
  /\ tasksLock' = "free"
  /\ Return(p, IF db[arg[p]].present THEN "ok" ELSE "err", rules, rulesLock)
  /\ UNCHANGED <<rest, traffic, nextId, tasks, fw, found, task, ops>>

\* -------------------------------------------------------------- stop_rule
\* let mut current_rules = self.rules.write().await;
\* let task = self.tasks.write().await.remove(&id);
StopLock(p) ==
  /\ pc[p] = "stop_lock"
  /\ CanLockRules(p)
  /\ tasksLock = "free"
  /\ rulesLock' = p
  /\ task' = [task EXCEPT ![p] = tasks[arg[p]]]
  /\ tasks' = [tasks EXCEPT ![arg[p]] = 0]
  /\ pc' = [pc EXCEPT ![p] = "stop_status"]
  /\ UNCHANGED <<rest, traffic, db, nextId, rules, fw, tasksLock, arg, ret, found, db_rules,
                 cursor, constructed, ops>>

\* let _ = self.dal.rule.update_status(id, Stopped).await;
StopStatus(p) ==
  /\ pc[p] = "stop_status"
  /\ db' = update_status(db, arg[p], "Stopped")
  /\ pc' = [pc EXCEPT ![p] = "stop_finish"]
  /\ UNCHANGED <<rest, traffic, nextId, rules, tasks, fw, rulesLock, tasksLock, arg, ret,
                 found, task, db_rules, cursor, constructed, ops>>

\* current_rules.remove(position of id): the first pair with that id.
RemoveRule(rs, id) ==
  IF \E i \in 1..Len(rs) : rs[i][1] = id
    THEN LET i == Min({j \in 1..Len(rs) : rs[j][1] = id})
         IN SubSeq(rs, 1, i - 1) \o SubSeq(rs, i + 1, Len(rs))
    ELSE rs

\* Remove the id from the supervised list, abort the task that was
\* registered (Err "rule not found" if there was none), drop the guard.
StopFinish(p) ==
  /\ pc[p] = "stop_finish"
  /\ fw' = IF task[p] = 0 THEN fw
           ELSE Collect([fw EXCEPT ![task[p]] = Abort(fw[task[p]])], tasks)
  /\ task' = [task EXCEPT ![p] = 0]
  /\ Return(p, IF task[p] = 0 THEN "err" ELSE "ok",
            RemoveRule(rules, arg[p]), "free")
  /\ UNCHANGED <<rest, traffic, db, nextId, tasks, tasksLock, found, ops>>

\* ----------------------------------------------------------- restart_rule
\* GET /fm/restart/{id}
ApiRestart(id) ==
  /\ constructed
  /\ ops < MaxOps
  /\ pc["api"] = "idle"
  /\ Goto("api", Call("stop_lock", id, "restart_stop", 0), rules, rulesLock)
  /\ ops' = ops + 1
  /\ UNCHANGED <<rest, traffic, db, nextId, tasks, fw, tasksLock, found, task>>

\* ---------------------------------------------------- forwarder: binding
\* TcpListener::bind / UdpSocket::bind of a spawned forwarder.  The bind
\* fails when another socket holds the endpoint: one of this process's
\* forwarders, or (busy) somebody else.  On failure the forwarder sets the
\* rule's status to Error (NotFound ignored) and returns.
TaskBind(h, kind, busy) ==
  /\ fw[h][kind] = "starting"
  /\ IF busy \/ PortBusy(kind, fw[h].listen)
       THEN /\ fw' = Collect([fw EXCEPT ![h][kind] = "exited"], tasks)
            /\ db' = update_status(db, fw[h].rule, "Error")
       ELSE /\ fw' = [fw EXCEPT ![h][kind] = "bound"]
            /\ db' = db
  /\ UNCHANGED <<rest, traffic, nextId, rules, tasks, rulesLock, tasksLock, pc, arg, ret,
                 found, task, db_rules, cursor, constructed, ops>>

\* The runtime drops an aborted forwarder task: its socket is closed.
TaskDrop(h, kind) ==
  /\ fw[h][kind] = "cancelling"
  /\ fw' = Collect([fw EXCEPT ![h][kind] = "exited"], tasks)
  /\ UNCHANGED <<rest, traffic, db, nextId, rules, tasks, rulesLock, tasksLock, pc, arg, ret,
                 found, task, db_rules, cursor, constructed, ops>>

\* ------------------------------------------------- operator (control plane)
OperatorMay == constructed /\ ops < MaxOps

mgr == <<rules, tasks, fw, rulesLock, tasksLock, pc, arg, ret, found, task,
         db_rules, cursor, constructed>>

\* POST /rules: create with the defaults status = Stopped, config, remarks.
OpCreate(listen, protocol, enabled) ==
  /\ OperatorMay
  /\ nextId \in RuleIds
  /\ db' = [db EXCEPT ![nextId] =
              Rule(listen, 1, protocol, 0, "n1", enabled, "Stopped")]
  /\ nextId' = nextId + 1
  /\ ops' = ops + 1
  /\ UNCHANGED <<mgr, traffic, rest>>

\* PATCH /rules/{id}: update with one field given.
UpdateFields ==
  [f : {"listen"}, v : Ports] \cup [f : {"target"}, v : Targets]
  \cup [f : {"protocol"}, v : RuleProtocol] \cup [f : {"config"}, v : Configs]
  \cup [f : {"name"}, v : Names] \cup [f : {"enabled"}, v : BOOLEAN]
  \cup [f : {"status"}, v : RuleStatus]

update(d, id, u) == [d EXCEPT ![id][u.f] = u.v]

\* A repository call of the operator that changes the store.
Operator(d) ==
  /\ OperatorMay
  /\ d # db
  /\ db' = d
  /\ ops' = ops + 1
  /\ UNCHANGED nextId
  /\ UNCHANGED <<mgr, traffic, rest>>

OpUpdate(id, u) == db[id].present /\ Operator(update(db, id, u))

\* POST /rules/{id}/actions/enable
OpEnable(id) == db[id].present /\ Operator(enable(db, id))

\* POST /rules/{id}/actions/disable
OpDisable(id) == db[id].present /\ Operator(disable(db, id))

\* DELETE /rules/{id}
OpDelete(id) == db[id].present /\ Operator(delete(db, id))

\* ------------------------------------------------------------------- Next
Next ==
  \/ LoadFindAll
  \/ LoadLock
  \/ \E p \in Procs : StartFind(p)
  \/ \E p \in Procs : StartSpawn(p)
  \/ \E p \in Procs : StartStatus(p)
  \/ \E p \in Procs : StopLock(p)
  \/ \E p \in Procs : StopStatus(p)
  \/ \E p \in Procs : StopFinish(p)
  \/ \E id \in RuleIds : ApiRestart(id)
  \/ \E h \in Handles, kind \in {"tcp", "udp"}, busy \in BOOLEAN : TaskBind(h, kind, busy)
  \/ \E h \in Handles, kind \in {"tcp", "udp"} : TaskDrop(h, kind)
  \/ \E l \in Ports, p \in RuleProtocol, e \in BOOLEAN : OpCreate(l, p, e)
  \/ \E id \in RuleIds, u \in UpdateFields : OpUpdate(id, u)
  \/ \E id \in RuleIds : OpEnable(id)
  \/ \E id \in RuleIds : OpDisable(id)
  \/ \E id \in RuleIds : OpDelete(id)

Spec == Init /\ [][Next]_vars

\* ------------------------------------------------ TCP forwarder: traffic

\* connections_limit with the larger of two set limits in place of the smaller.
connections_limit_max(rule_limit, config_limit) ==
  CASE rule_limit # {} /\ config_limit # {} -> {Max(rule_limit \cup config_limit)}
    [] rule_limit # {} /\ config_limit = {} -> rule_limit
    [] rule_limit = {} /\ config_limit # {} -> config_limit
    [] OTHER -> {}

\* let connections_limit = match (rule.config.connections,
\* config.connections_limit): an option is the empty set or a singleton.
connections_limit(rule_limit, config_limit) ==
  CASE rule_limit # {} /\ config_limit # {} -> {Min(rule_limit \cup config_limit)}
    [] rule_limit # {} /\ config_limit = {} -> rule_limit
    [] rule_limit = {} /\ config_limit # {} -> config_limit
    [] OTHER -> {}

\* The handler task of a connection runs: spawned and not yet returned.
HandlerAlive(k) ==
  k.st \in {"inc_get", "inc_put", "connect", "relay", "dec_get", "dec_put"}

\* The permits of forwarder h's semaphore that are out: each is owned by a
\* handler task until that task ends.
PermitsOut(h) == Cardinality({c \in Conns : conn[c].owner = h /\ HandlerAlive(conn[c])})

\* semaphore.clone().try_acquire_owned(); no semaphore without a limit.
TryAcquire(h) ==
  LET sem == connections_limit(limit.rule, limit.agent)
  IN sem = {} \/ \E n \in sem : PermitsOut(h) < n

manager == <<db, nextId, rules, tasks, fw, rulesLock, tasksLock, pc, arg, ret,
             found, task, db_rules, cursor, constructed, ops>>

\* listener.accept() of the forwarder behind handle h returns the next
\* connection: a handler is spawned with a permit, or the socket is dropped.
Accept(h) ==
  /\ fw[h].tcp = "bound"
  /\ \E c \in Conns :
       /\ conn[c].st = "new"
       /\ \A b \in Conns : conn[b].st = "new" => c <= b
       /\ conn' = [conn EXCEPT ![c] =
                     IF TryAcquire(h)
                       THEN [NoConn EXCEPT !.st = "inc_get", !.owner = h,
                                           !.rule = fw[h].rule]
                       ELSE [NoConn EXCEPT !.st = "rejected", !.owner = h,
                                           !.rule = fw[h].rule]]
  /\ UNCHANGED <<rest, manager, limit, upd, cache, db_stats, flushes>>

\* handle_connection: let prev_stats = stats_cache.get(..).unwrap_or_default()
\* at entry and at exit.
HandlerGet(c) ==
  /\ conn[c].st \in {"inc_get", "dec_get"}
  /\ conn' = [conn EXCEPT ![c].prev = GetOrDefault(conn[c].rule),
                          ![c].st = IF conn[c].st = "inc_get" THEN "inc_put"
                                    ELSE "dec_put"]
  /\ UNCHANGED <<rest, manager, limit, upd, cache, db_stats, flushes>>

\* stats_cache.insert(rule_id, RuleStats { connections.tcp: prev + 1, ..prev })
IncPut(c) ==
  /\ conn[c].st = "inc_put"
  /\ cache' = [cache EXCEPT ![conn[c].rule] =
                 [conn[c].prev EXCEPT !.tcp = (conn[c].prev.tcp + 1) % CounterMod]]
  /\ conn' = [conn EXCEPT ![c].st = "connect", ![c].prev = NoEntry]
  /\ UNCHANGED <<rest, manager, limit, upd, db_stats, flushes>>

\* TcpStream::connect(target_addr): Ok spawns the stats updater and relays;
\* Err logs and returns.
Connect(c, ok) ==
  /\ conn[c].st = "connect"
  /\ IF ok
       THEN /\ conn' = [conn EXCEPT ![c].st = "relay"]
            /\ upd' = [upd EXCEPT ![c].st = "wait"]
       ELSE /\ conn' = [conn EXCEPT ![c].st = "closed"]
            /\ upd' = upd
  /\ UNCHANGED <<rest, manager, limit, cache, db_stats, flushes>>

\* What the connections of the run have relayed so far.
RECURSIVE SentUpTo(_)
SentUpTo(c) == IF c = 0 THEN 0 ELSE conn[c].sent + SentUpTo(c - 1)

\* A relay direction copies a chunk: transferred_bytes.fetch_add(n).
Relay(c) ==
  /\ conn[c].st = "relay"
  /\ SentUpTo(MaxConns) < MaxBytes
  /\ conn' = [conn EXCEPT ![c].bytes = conn[c].bytes + 1,
                          ![c].sent = conn[c].sent + 1]
  /\ UNCHANGED <<rest, manager, limit, upd, cache, db_stats, flushes>>

\* RelayEnds without the read timeouts and the five minute cap: the relays
\* end when the peers have sent what they had to send.
RelayEndsByPeer(c) ==
  /\ conn[c].st = "relay"
  /\ conn[c].sent > 0
  /\ conn' = [conn EXCEPT ![c].st = "dec_get"]
  /\ UNCHANGED <<rest, manager, limit, upd, cache, db_stats, flushes>>

\* The select! over the relays (both ended, or the five minute cap) and the
\* updater's JoinHandle completes; the handle is dropped with it.
RelayEnds(c) ==
  /\ conn[c].st = "relay"
  /\ conn' = [conn EXCEPT ![c].st = "dec_get"]
  /\ UNCHANGED <<rest, manager, limit, upd, cache, db_stats, flushes>>

\* stats_cache.insert(rule_id, RuleStats { connections.tcp: prev - 1, ..prev })
\* and return.  prev = 0 overflows: a panic (checked build) ends the task
\* without the insert, otherwise the count wraps.
DecPut(c, checked) ==
  /\ conn[c].st = "dec_put"
  /\ cache' = IF conn[c].prev.tcp = 0 /\ checked THEN cache
              ELSE [cache EXCEPT ![conn[c].rule] =
                      [conn[c].prev EXCEPT
                         !.tcp = (conn[c].prev.tcp + CounterMod - 1) % CounterMod]]
  /\ conn' = [conn EXCEPT ![c].st = "closed", ![c].prev = NoEntry]
  /\ UNCHANGED <<rest, manager, limit, upd, db_stats, flushes>>

\* The stats updater's tick: prev_stats = stats_cache.get(..), then
\* bytes = transferred_bytes.swap(0).
UpdGet(c) ==
  /\ upd[c].st = "wait"
  /\ upd' = [upd EXCEPT ![c] = [st |-> "put", bytes |-> conn[c].bytes,
                                prev |-> GetOrDefault(conn[c].rule)]]
  /\ conn' = [conn EXCEPT ![c].bytes = 0]
  /\ UNCHANGED <<rest, manager, limit, cache, db_stats, flushes>>

\* stats_cache.insert(rule_id, RuleStats { bandwidth: prev + bytes, speed,
\* ..prev }), after the await of last_update_time.lock().
UpdPut(c) ==
  /\ upd[c].st = "put"
  /\ cache' = [cache EXCEPT ![conn[c].rule] =
                 [upd[c].prev EXCEPT !.bandwidth = upd[c].prev.bandwidth + upd[c].bytes]]
  /\ upd' = [upd EXCEPT ![c] = [NoUpd EXCEPT !.st = "wait"]]
  /\ UNCHANGED <<rest, manager, limit, conn, db_stats, flushes>>

\* ------------------------------------------------------------ flush_stats
\* get_stats: the cache entries whose id is in the supervised list (read
\* lock on rules).
get_stats == [id \in RuleIds |-> IF id \in Supervised(rules) THEN cache[id] ELSE NoEntry]

\* RuleDataAccessLayer::update_stats: NotFound leaves the store unchanged.
update_stats(d, id, stats) == IF db[id].present THEN [d EXCEPT ![id] = stats.bandwidth] ELSE d

\* The loop of flush_stats: update_stats for every id get_stats returned
\* that the store has.
RECURSIVE FlushFrom(_, _, _)
FlushFrom(d, stats, id) ==
  IF id \notin RuleIds THEN d
  ELSE FlushFrom(IF stats[id].present THEN update_stats(d, id, stats[id]) ELSE d,
                 stats, id + 1)

\* flush_stats, at the start of a tick of start_polling.  It reads the cache
\* once (get_stats) and then writes only the store's stats, which nothing
\* else reads: a cache write during its loop has the effect of the same
\* write after it, so the flush is one step.
flush_stats ==
  /\ flushes < MaxFlushes
  /\ pc["lr"] = "idle"
  /\ constructed
  /\ rulesLock = "free"
  /\ db_stats' = FlushFrom(db_stats, get_stats, 1)
  /\ flushes' = flushes + 1
  /\ UNCHANGED <<rest, manager, limit, conn, upd, cache>>

\* ------------------------------------------------- a rule under traffic
\* The manager has been constructed over a store with rule 1 (Tcp, enabled),
\* has started it, and its forwarder listens; the operator has one request
\* left.  The limits are those of the rule's config and of the agent's.
Limits == {[rule |-> {}, agent |-> {}], [rule |-> {}, agent |-> {1}],
           [rule |-> {2}, agent |-> {1}]}

Listening ==
  /\ db = [NoSnapshot EXCEPT ![1] = Rule(1, 1, "Tcp", 0, "n1", TRUE, "Running")]
  /\ nextId = 2
  /\ rules = wanted_rules(db)
  /\ tasks = [r \in RuleIds |-> IF r = 1 THEN 1 ELSE 0]
  /\ fw = [h \in Handles |->
             IF h = 1 THEN [SpawnFor(1, db[1]) EXCEPT !.tcp = "bound"] ELSE NoTask]
  /\ rulesLock = "free"
  /\ tasksLock = "free"
  /\ pc = [p \in Procs |-> "idle"]
  /\ arg = [p \in Procs |-> 0]
  /\ ret = [p \in Procs |-> "idle"]
  /\ found = [p \in Procs |-> NoFound]
  /\ task = [p \in Procs |-> 0]
  /\ db_rules = NoSnapshot
  /\ cursor = 0
  /\ constructed = TRUE
  /\ ops = MaxOps - 1

TrafficInit ==
  /\ Listening
  /\ limit \in Limits
  /\ NoTraffic
  /\ RestIdle

\* Connections, the updaters, the flush of every tick, and restarts asked
\* for by the operator.
TrafficNext ==
  \/ \E h \in Handles : Accept(h)
  \/ \E c \in Conns : HandlerGet(c)
  \/ \E c \in Conns : IncPut(c)
  \/ \E c \in Conns, ok \in BOOLEAN : Connect(c, ok)
  \/ \E c \in Conns : Relay(c)
  \/ \E c \in Conns : RelayEnds(c)
  \/ \E c \in Conns, checked \in BOOLEAN : DecPut(c, checked)
  \/ \E c \in Conns : UpdGet(c)
  \/ \E c \in Conns : UpdPut(c)
  \/ flush_stats
  \/ \E id \in RuleIds : ApiRestart(id)
  \/ StopLock("api") \/ StopStatus("api") \/ StopFinish("api")
  \/ StartFind("api") \/ StartSpawn("api") \/ StartStatus("api")
  \/ \E h \in Handles, kind \in {"tcp", "udp"}, busy \in BOOLEAN : TaskBind(h, kind, busy)
  \/ \E h \in Handles, kind \in {"tcp", "udp"} : TaskDrop(h, kind)

TrafficSpec == TrafficInit /\ [][TrafficNext]_vars

\* ------------------------------------------------------------ reset_stat
\* reset_stat: a cached id gets RuleStats::default(); any other id is an
\* error and nothing changes.
reset_stat(id) ==
  /\ cache' = IF cache[id].present THEN [cache EXCEPT ![id] = DefaultStats] ELSE cache
  /\ UNCHANGED <<rest, manager, limit, conn, upd, db_stats, flushes>>

\* reset_stats: RuleStats::default() for every id get_stats returns (read
\* lock on rules).
reset_stats ==
  /\ rulesLock = "free"
  /\ cache' = [id \in RuleIds |-> IF get_stats[id].present THEN DefaultStats ELSE cache[id]]
  /\ UNCHANGED <<rest, manager, limit, conn, upd, db_stats, flushes>>

\* ForwardManager::new over a store whose rule 1 has persisted bandwidth b:
\* after load_rules the cache is seeded with the persisted bandwidth.
SeededWith(b) ==
  /\ conn = [c \in Conns |-> NoConn]
  /\ upd = [c \in Conns |-> NoUpd]
  /\ db_stats = [id \in RuleIds |-> IF id = 1 THEN b ELSE 0]
  /\ cache = [id \in RuleIds |->
                IF db[id].present THEN [DefaultStats EXCEPT !.bandwidth = db_stats[id]]
                ELSE NoEntry]
  /\ flushes = 0

StatsInit ==
  /\ Listening
  /\ limit = [rule |-> {}, agent |-> {}]
  /\ \E b \in 0..MaxBytes : SeededWith(b)
  /\ RestIdle

\* One client, the resets and restarts the operator asks for, and the flush
\* of the tick.
StatsNext ==
  \/ \E h \in Handles : conn[1].st = "new" /\ Accept(h)
  \/ HandlerGet(1)
  \/ IncPut(1)
  \/ \E ok \in BOOLEAN : Connect(1, ok)
  \/ Relay(1)
  \/ RelayEnds(1)
  \/ \E checked \in BOOLEAN : DecPut(1, checked)
  \/ UpdGet(1)
  \/ UpdPut(1)
  \/ flush_stats
  \/ \E id \in RuleIds : reset_stat(id)
  \/ reset_stats
  \/ \E id \in RuleIds : ApiRestart(id)
  \/ StopLock("api") \/ StopStatus("api") \/ StopFinish("api")
  \/ StartFind("api") \/ StartSpawn("api") \/ StartStatus("api")
  \/ \E h \in Handles, kind \in {"tcp", "udp"}, busy \in BOOLEAN : TaskBind(h, kind, busy)
  \/ \E h \in Handles, kind \in {"tcp", "udp"} : TaskDrop(h, kind)

StatsSpec == StatsInit /\ [][StatsNext]_vars

\* ------------------------------------------------- ForwardManager::new
\* The second half of ForwardManager::new: find_all, then for every rule
\* stats_cache.insert(id, RuleStats { bandwidth, failed_times,
\* ..Default::default() }).  The inserts replace whatever the cache holds.
Seed ==
  /\ ~constructed
  /\ pc["lr"] = "idle"
  /\ cache' = [id \in RuleIds |->
                 IF db[id].present THEN [DefaultStats EXCEPT !.bandwidth = db_stats[id]]
                 ELSE cache[id]]
  /\ constructed' = TRUE
  /\ UNCHANGED <<rest, db, nextId, rules, tasks, fw, rulesLock, tasksLock, pc, arg, ret,
                 found, task, db_rules, cursor, ops, limit, conn, upd, db_stats, flushes>>

\* ForwardManager::new between its load_rules, which has returned, and the
\* seeding: the store has rule 1 (Tcp, enabled) with persisted bandwidth b,
\* load_rules has spawned its forwarder, the cache is empty.
SeedInit ==
  /\ db = [NoSnapshot EXCEPT ![1] = Rule(1, 1, "Tcp", 0, "n1", TRUE, "Running")]
  /\ nextId = 2
  /\ rules = wanted_rules(db)
  /\ tasks = [r \in RuleIds |-> IF r = 1 THEN 1 ELSE 0]
  /\ fw = [h \in Handles |-> IF h = 1 THEN SpawnFor(1, db[1]) ELSE NoTask]
  /\ rulesLock = "free"
  /\ tasksLock = "free"
  /\ pc = [p \in Procs |-> "idle"]
  /\ arg = [p \in Procs |-> 0]
  /\ ret = [p \in Procs |-> "idle"]
  /\ found = [p \in Procs |-> NoFound]
  /\ task = [p \in Procs |-> 0]
  /\ db_rules = NoSnapshot
  /\ cursor = 0
  /\ constructed = FALSE
  /\ ops = MaxOps
  /\ limit = [rule |-> {}, agent |-> {}]
  /\ conn = [c \in Conns |-> NoConn]
  /\ upd = [c \in Conns |-> NoUpd]
  /\ cache = [id \in RuleIds |-> NoEntry]
  /\ \E b \in 0..MaxBytes : db_stats = [id \in RuleIds |-> IF id = 1 THEN b ELSE 0]
  /\ flushes = 0
  /\ RestIdle

\* The forwarder that load_rules started and its connections, next to the
\* seeding.
SeedNext ==
  \/ Seed
  \/ \E h \in Handles, kind \in {"tcp", "udp"}, busy \in BOOLEAN : TaskBind(h, kind, busy)
  \/ \E h \in Handles : Accept(h)
  \/ \E c \in Conns : HandlerGet(c)
  \/ \E c \in Conns : IncPut(c)
  \/ \E c \in Conns, ok \in BOOLEAN : Connect(c, ok)
  \/ \E c \in Conns : Relay(c)
  \/ \E c \in Conns : RelayEnds(c)
  \/ \E c \in Conns, checked \in BOOLEAN : DecPut(c, checked)
  \/ \E c \in Conns : UpdGet(c)
  \/ \E c \in Conns : UpdPut(c)

SeedSpec == SeedInit /\ [][SeedNext]_vars

\* ------------------------------------------- repository: concurrent calls
\* The request handlers and the manager call the repository from tasks of
\* a multi-threaded runtime; sled makes each get / insert / remove atomic
\* and nothing more.  A call is the sequence of its sled operations.
Begin(c) == req[c].st = "idle" /\ calls < MaxCalls

\* create: fresh id, self.db.insert(key, buffer); add_rule_id_to_index is next.
CreateInsert(c, enabled) ==
  /\ Begin(c)
  /\ nid \in RuleIds
  /\ store' = [store EXCEPT ![nid] = StoredRule(enabled, "Stopped", 0)]
  /\ nid' = nid + 1
  /\ req' = [req EXCEPT ![c] = [NoReq EXCEPT !.op = "create", !.id = nid, !.st = "index_get"]]
  /\ calls' = calls + 1
  /\ UNCHANGED <<manager, traffic, sel, udp, paths, index>>

\* delete: contains_key, and if the key is there remove it;
\* remove_rule_id_from_index is next.
DeleteRemove(c, id) ==
  /\ Begin(c)
  /\ store' = [store EXCEPT ![id] = NoKey]
  /\ req' = [req EXCEPT ![c] =
               [NoReq EXCEPT !.op = "delete", !.id = id,
                             !.st = IF store[id].present THEN "index_get" ELSE "idle",
                             !.res = IF store[id].present THEN "none" ELSE "false"]]
  /\ calls' = calls + 1
  /\ UNCHANGED <<manager, traffic, sel, udp, paths, index, nid>>

\* get_rule_index, in add_rule_id_to_index and remove_rule_id_from_index.
IndexGet(c) ==
  /\ req[c].st = "index_get"
  /\ req' = [req EXCEPT ![c].ids = index, ![c].st = "index_put"]
  /\ UNCHANGED <<manager, traffic, sel, udp, paths, store, index, nid, calls>>

Without(ids, id) == SelectSeq(ids, LAMBDA x : x # id)
Contains(ids, id) == \E i \in 1..Len(ids) : ids[i] = id

\* update_rule_index with the ids the call read: pushed unless contained
\* (create), or retained unless equal (delete).
IndexPut(c) ==
  /\ req[c].st = "index_put"
  /\ index' = IF req[c].op = "create"
              THEN (IF Contains(req[c].ids, req[c].id) THEN index
                    ELSE Append(req[c].ids, req[c].id))
              ELSE Without(req[c].ids, req[c].id)
  /\ req' = [req EXCEPT ![c].st = "idle", ![c].res = "ok"]
  /\ UNCHANGED <<manager, traffic, sel, udp, paths, store, nid, calls>>

\* The calls that rewrite one stored rule.
RuleCalls ==
  {[op |-> "update_status", status |-> s, stats |-> 0] : s \in RuleStatus}
  \cup {[op |-> "update_stats", status |-> "Stopped", stats |-> 1]}
  \cup {[op |-> o, status |-> "Stopped", stats |-> 0] : o \in {"enable", "disable"}}

\* The rule each of them encodes from the rule it decoded.
Rewritten(r, k) ==
  CASE k.op = "update_status" -> [r EXCEPT !.status = k.status]
    [] k.op = "update_stats" -> [r EXCEPT !.stats = k.stats]
    [] k.op = "enable" -> [r EXCEPT !.enabled = TRUE, !.status = "Stopped"]
    [] k.op = "disable" -> [r EXCEPT !.enabled = FALSE, !.status = "Stopped"]

\* self.db.get(&key)?.ok_or_else(NotFound), decode.
RuleGet(c, id, k) ==
  /\ Begin(c)
  /\ req' = [req EXCEPT ![c] =
               [NoReq EXCEPT !.op = k.op, !.id = id, !.status = k.status, !.stats = k.stats,
                             !.rule = store[id],
                             !.st = IF store[id].present THEN "rule_insert" ELSE "idle",
                             !.res = IF store[id].present THEN "none" ELSE "NotFound"]]
  /\ calls' = calls + 1
  /\ UNCHANGED <<manager, traffic, sel, udp, paths, store, index, nid>>

\* encode, self.db.insert(key, buffer).
RuleInsert(c) ==
  /\ req[c].st = "rule_insert"
  /\ store' = [store EXCEPT ![req[c].id] = Rewritten(req[c].rule, req[c])]
  /\ req' = [req EXCEPT ![c].st = "idle", ![c].res = "ok"]
  /\ UNCHANGED <<manager, traffic, sel, udp, paths, index, nid, calls>>

\* find_all: get_rule_index.
FindAllIndex(c) ==
  /\ Begin(c)
  /\ req' = [req EXCEPT ![c] = [NoReq EXCEPT !.op = "find_all", !.ids = index, !.st = "find_rules"]]
  /\ calls' = calls + 1
  /\ UNCHANGED <<manager, traffic, sel, udp, paths, store, index, nid>>

\* find_all: find_by_id for each id of the index read, the rule pushed if Some.
FindAllRules(c) ==
  /\ req[c].st = "find_rules"
  /\ req' = [req EXCEPT ![c].out = SelectSeq(req[c].ids, LAMBDA x : store[x].present),
                        ![c].st = "idle", ![c].res = "ok"]
  /\ UNCHANGED <<manager, traffic, sel, udp, paths, store, index, nid, calls>>

\* A store with rule 1, created and started by an earlier call.
RepoInit ==
  /\ Listening
  /\ limit = [rule |-> {}, agent |-> {}]
  /\ NoTraffic
  /\ store = [id \in RuleIds |-> IF id = 1 THEN StoredRule(TRUE, "Running", 0) ELSE NoKey]
  /\ index = <<1>>
  /\ nid = 2
  /\ req = [c \in Callers |-> NoReq]
  /\ calls = 0
  /\ SelIdle
  /\ UdpIdle
  /\ PathsIdle

RepoNext ==
  \/ \E c \in Callers, enabled \in BOOLEAN : CreateInsert(c, enabled)
  \/ \E c \in Callers, id \in RuleIds : DeleteRemove(c, id)
  \/ \E c \in Callers : IndexGet(c)
  \/ \E c \in Callers : IndexPut(c)
  \/ \E c \in Callers, id \in RuleIds, k \in RuleCalls : RuleGet(c, id, k)
  \/ \E c \in Callers : RuleInsert(c)
  \/ \E c \in Callers : FindAllIndex(c)
  \/ \E c \in Callers : FindAllRules(c)

RepoSpec == RepoInit /\ [][RepoNext]_vars

\* ------------------------------------------------------ target selection
RuleTargetPolicy == {"Fallback", "RoundRobin", "LeastConnections", "Random"}

\* select_target with COUNTER at k: the indices into target.addrs it can
\* return.  No forwarder calls it.
select_target(pol, n, k) ==
  CASE pol = "Fallback" -> {0}
    [] pol = "RoundRobin" -> {k % n}
    [] OTHER -> 0..(n - 1)

\* The accept loop of the TCP forwarder: let target_addr =
\* rule.target.addrs[0], handed to the handler it spawns.
TcpTarget ==
  /\ Len(picks) < MaxPicks
  /\ picks' = Append(picks, [proto |-> "tcp", index |-> 0])
  /\ UNCHANGED <<manager, traffic, repo, udp, paths, policy, addrs>>

\* The UDP forwarder: let target_addr = rule.target.addrs[0] at its start,
\* handed to every session it creates.
UdpTarget ==
  /\ Len(picks) < MaxPicks
  /\ picks' = Append(picks, [proto |-> "udp", index |-> 0])
  /\ UNCHANGED <<manager, traffic, repo, udp, paths, policy, addrs>>

\* A listening rule with any policy and one to MaxAddrs target addresses.
TargetInit ==
  /\ Listening
  /\ limit = [rule |-> {}, agent |-> {}]
  /\ NoTraffic
  /\ RepoIdle
  /\ UdpIdle
  /\ policy \in RuleTargetPolicy
  /\ addrs \in 1..MaxAddrs
  /\ picks = <<>>
  /\ PathsIdle

TargetNext == TcpTarget \/ UdpTarget

TargetSpec == TargetInit /\ [][TargetNext]_vars

\* ---------------------------------------------------------- UDP forwarder
\* The clients lock is a tokio Mutex.  The cleaner and the stats updater
\* hold it within one step; the ingress loop holds it from the lookup to the
\* end of sender.send(data).await.
ClientsLocked == ingress.st = "send"

TableSize == Cardinality({a \in UdpClients : clients[a].present})

\* The ingress loop receives a datagram of client a and locks the table.
\* Known client: last_active = now, then sender.send(data).await, which
\* fails if the session dropped the receiver (entry removed), completes if
\* the channel has room, and otherwise waits.  New client: channel, session
\* task, entry.
Receive(a) ==
  /\ ingress.st = "recv"
  /\ IF clients[a].present
     THEN CASE ~chan[a].open ->
                 /\ clients' = [clients EXCEPT ![a] = NoClient]
                 /\ chan' = [chan EXCEPT ![a] = NoChannel]
                 /\ UNCHANGED ingress
            [] chan[a].open /\ chan[a].len < ChannelCap ->
                 /\ clients' = [clients EXCEPT ![a].last_active = now]
                 /\ chan' = [chan EXCEPT ![a].len = @ + 1]
                 /\ UNCHANGED ingress
            [] OTHER ->
                 /\ clients' = [clients EXCEPT ![a].last_active = now]
                 /\ ingress' = [st |-> "send", client |-> a]
                 /\ UNCHANGED chan
     ELSE /\ clients' = [clients EXCEPT ![a] = [present |-> TRUE, last_active |-> now]]
          /\ chan' = [chan EXCEPT ![a] = [open |-> TRUE, len |-> 0]]
          /\ UNCHANGED ingress
  /\ UNCHANGED <<manager, traffic, repo, sel, paths, now, cleaner, reported>>

\* sender.send(data).await returns: the channel got room, or the session
\* dropped the receiver (Err: clients_lock.remove).  The lock is released.
SendReturns ==
  /\ ingress.st = "send"
  /\ LET a == ingress.client
     IN /\ ~chan[a].open \/ chan[a].len < ChannelCap
        /\ IF chan[a].open
           THEN chan' = [chan EXCEPT ![a].len = @ + 1] /\ UNCHANGED clients
           ELSE /\ clients' = [clients EXCEPT ![a] = NoClient]
                /\ chan' = [chan EXCEPT ![a] = NoChannel]
  /\ ingress' = [st |-> "recv", client |-> 0]
  /\ UNCHANGED <<manager, traffic, repo, sel, paths, now, cleaner, reported>>

\* create_target_session: client_rx.recv() yields a datagram, sent on to
\* the target.
SessionRecv(a) ==
  /\ chan[a].open
  /\ chan[a].len > 0
  /\ chan' = [chan EXCEPT ![a].len = @ - 1]
  /\ UNCHANGED <<manager, traffic, repo, sel, paths, now, clients, ingress, cleaner, reported>>

\* create_target_session returns (bind, connect or send failed, or the
\* loop broke): the receiver is dropped.
SessionEnds(a) ==
  /\ chan[a].open
  /\ chan' = [chan EXCEPT ![a] = NoChannel]
  /\ UNCHANGED <<manager, traffic, repo, sel, paths, now, clients, ingress, cleaner, reported>>

\* The cleaner: interval.tick() fires, let now = Instant::now().
CleanerTick ==
  /\ cleaner.st = "wait"
  /\ now >= cleaner.next
  /\ cleaner' = [st |-> "ticked", now |-> now, next |-> cleaner.next + CleanEvery]
  /\ UNCHANGED <<manager, traffic, repo, sel, paths, now, clients, chan, ingress, reported>>

\* now.duration_since(last_active), saturating at zero.
IdleAt(t, a) == IF t >= clients[a].last_active THEN t - clients[a].last_active ELSE 0

\* The cleaner: clients.lock().await, retain the entries idle for less than
\* 60 s at the tick.  A dropped entry drops the sender of its channel.
CleanerRetain ==
  /\ cleaner.st = "ticked"
  /\ ~ClientsLocked
  /\ clients' = [a \in UdpClients |->
                   IF clients[a].present /\ IdleAt(cleaner.now, a) < IdleLimit
                   THEN clients[a] ELSE NoClient]
  /\ chan' = [a \in UdpClients |-> IF clients'[a].present THEN chan[a] ELSE NoChannel]
  /\ cleaner' = [cleaner EXCEPT !.st = "wait"]
  /\ UNCHANGED <<manager, traffic, repo, sel, paths, now, ingress, reported>>

\* The stats updater: connection_count = clients.lock().await.len(), written
\* into the cache entry as connections.udp.
UdpUpdate ==
  /\ ~ClientsLocked
  /\ reported' = TableSize
  /\ UNCHANGED <<manager, traffic, repo, sel, paths, now, clients, chan, ingress, cleaner>>

\* Ten seconds pass.  The interval fires on time, and a task that can run
\* does so before the clock moves; a task waiting for the lock waits.
Advance ==
  /\ now < MaxTime
  /\ ~(cleaner.st = "wait" /\ now >= cleaner.next)
  /\ ~(cleaner.st = "ticked" /\ ~ClientsLocked)
  /\ now' = now + 1
  /\ UNCHANGED <<manager, traffic, repo, sel, paths, clients, chan, ingress, cleaner, reported>>

UdpInit ==
  /\ Listening
  /\ limit = [rule |-> {}, agent |-> {}]
  /\ NoTraffic
  /\ RepoIdle
  /\ SelIdle
  /\ UdpIdle
  /\ PathsIdle

UdpNext ==
  \/ \E a \in UdpClients : Receive(a)
  \/ SendReturns
  \/ \E a \in UdpClients : SessionRecv(a)
  \/ \E a \in UdpClients : SessionEnds(a)
  \/ CleanerTick
  \/ CleanerRetain
  \/ UdpUpdate
  \/ Advance

UdpSpec == UdpInit /\ [][UdpNext]_vars

\* -------------------------------------------------------- one UDP session
\* create_target_session from the spawn of its target receiver on.  entry:
\* the client table holds the entry, and with it the only sender of the
\* client channel; inq: datagrams queued in that channel; helper: the
\* target-receiver task, which holds the only sender of the response
\* channel; outq: responses queued in that channel; toTarget / toClient:
\* datagrams the session has relayed in each direction.
PathsBase ==
  /\ Listening
  /\ limit = [rule |-> {}, agent |-> {}]
  /\ NoTraffic
  /\ RepoIdle
  /\ SelIdle
  /\ UdpIdle

\* client_rx.recv() gives None: every sender is dropped and nothing is
\* queued.  Likewise resp_rx.recv().
ClientClosed == ~sess.entry /\ sess.inq = 0
ResponseClosed == sess.helper # "running" /\ sess.outq = 0

\* The ingress loop finds the entry and sends the datagram into its channel.
IngressSend ==
  /\ sess.st = "running" /\ sess.entry
  /\ sess.inq < ChannelCap
  /\ sess.inq + sess.toTarget < MaxDatagrams
  /\ sess' = [sess EXCEPT !.inq = @ + 1]
  /\ UNCHANGED <<manager, traffic, repo, sel, udp, relay, frag, speed>>

\* The entry leaves the table: the cleaner's retain drops it, or the
\* ingress loop removes it when the send into its channel fails.
Evict ==
  /\ sess.st # "off" /\ sess.entry
  /\ sess' = [sess EXCEPT !.entry = FALSE]
  /\ UNCHANGED <<manager, traffic, repo, sel, udp, relay, frag, speed>>

\* The target receiver: a response goes into the response channel; a
\* failed recv, or a send into a channel whose receiver is gone, ends it.
TargetRecv(ok) ==
  /\ sess.helper = "running"
  /\ IF ok /\ sess.st = "running"
       THEN /\ sess.outq < ChannelCap
            /\ sess.outq + sess.toClient < MaxDatagrams
            /\ sess' = [sess EXCEPT !.outq = @ + 1]
       ELSE sess' = [sess EXCEPT !.helper = "ended"]
  /\ UNCHANGED <<manager, traffic, repo, sel, udp, relay, frag, speed>>

\* The session leaves its loop: target_receiver.abort(), Ok(()).
SessionExit(s) ==
  [s EXCEPT !.st = "ended",
            !.helper = IF @ = "running" THEN "aborted" ELSE @]

\* select!, first branch: Some(data) = client_rx.recv(); the datagram is
\* sent to the target, a send error breaks the loop.
SessionClient(ok) ==
  /\ sess.st = "running" /\ sess.inq > 0
  /\ sess' = IF ok THEN [sess EXCEPT !.inq = @ - 1, !.toTarget = @ + 1]
             ELSE SessionExit([sess EXCEPT !.inq = @ - 1])
  /\ UNCHANGED <<manager, traffic, repo, sel, udp, relay, frag, speed>>

\* select!, second branch: Some(response) = resp_rx.recv(); the response
\* is sent to the client through the listener, an error breaks the loop.
SessionResponse(ok) ==
  /\ sess.st = "running" /\ sess.outq > 0
  /\ sess' = IF ok THEN [sess EXCEPT !.outq = @ - 1, !.toClient = @ + 1]
             ELSE SessionExit([sess EXCEPT !.outq = @ - 1])
  /\ UNCHANGED <<manager, traffic, repo, sel, udp, relay, frag, speed>>

\* select!, else => break: taken when both patterns have failed, that is
\* when both channels are closed.
SessionElse ==
  /\ sess.st = "running"
  /\ ClientClosed /\ ResponseClosed
  /\ sess' = SessionExit(sess)
  /\ UNCHANGED <<manager, traffic, repo, sel, udp, relay, frag, speed>>

\* The session has sent the client's first datagram and spawned its target
\* receiver; the ingress loop has inserted the entry.
SessionInit ==
  /\ PathsBase
  /\ sess = [st |-> "running", entry |-> TRUE, inq |-> 0, helper |-> "running",
             outq |-> 0, toTarget |-> 0, toClient |-> 0]
  /\ relay = NoRelay
  /\ frag = NoPayload
  /\ speed = NoTick

SessionNext ==
  \/ IngressSend
  \/ Evict
  \/ \E ok \in BOOLEAN : TargetRecv(ok)
  \/ \E ok \in BOOLEAN : SessionClient(ok)
  \/ \E ok \in BOOLEAN : SessionResponse(ok)
  \/ SessionElse

SessionSpec == SessionInit /\ [][SessionNext]_vars

\* ----------------------------------------------- one TCP relay direction
\* client_to_server (server_to_client is the same loop over the other two
\* halves).  whole: the bytes the source sends; src: those not yet read;
\* buffer: the task's buffer, buffer_size bytes; n: the length the last
\* read returned; rd: the bytes read so far; wr: the bytes written to the
\* destination so far.
Bytes == {0, 1}
Streams == UNION {[1..k -> Bytes] : k \in 0..MaxStream}

IsPrefix(s, t) == Len(s) <= Len(t) /\ SubSeq(t, 1, Len(s)) = s

\* read(&mut buffer) that returned k: the first k bytes of the buffer are
\* the next k of the source, the others are as they were.
ReadInto(buffer, s, k) ==
  [i \in 1..Len(buffer) |-> IF i <= k THEN s[i] ELSE buffer[i]]

\* A write that sends the whole buffer, not only the bytes just read.
write_buffer(w, buffer, k) == w \o buffer

\* write_all(&buffer[..k]) as far as it went: to the end, or up to the
\* byte where it failed or was dropped.
write_all(w, buffer, k) == w \o SubSeq(buffer, 1, k)

\* timeout(60 s, reader.read(&mut buffer)): Ok(Ok(n)) with 0 < n, Ok(Ok(0))
\* at the end of the stream, Ok(Err(e)) or Err(elapsed), which both break.
RelayRead(k) ==
  /\ relay.st = "read"
  /\ k <= Len(relay.buffer) /\ k <= Len(relay.src)
  /\ relay' = IF k = 0
                THEN [relay EXCEPT !.st = "closing"]
                ELSE [relay EXCEPT !.st = "write", !.n = k,
                                   !.buffer = ReadInto(@, relay.src, k),
                                   !.rd = @ \o SubSeq(relay.src, 1, k),
                                   !.src = SubSeq(@, k + 1, Len(@))]
  /\ UNCHANGED <<manager, traffic, repo, sel, udp, sess, frag, speed>>

\* write_all(&buffer[..n]) and the flush: j = n when they succeed, j < n
\* when the write fails after j bytes, which breaks the loop.
RelayWrite(j) ==
  /\ relay.st = "write"
  /\ j <= relay.n
  /\ relay' = [relay EXCEPT !.wr = write_all(@, relay.buffer, j),
                            !.st = IF j = relay.n THEN "read" ELSE "closing"]
  /\ UNCHANGED <<manager, traffic, repo, sel, udp, sess, frag, speed>>

\* The flush after a complete write fails: break.
RelayFlushFails ==
  /\ relay.st = "read" /\ relay.n > 0
  /\ relay' = [relay EXCEPT !.st = "closing"]
  /\ UNCHANGED <<manager, traffic, repo, sel, udp, sess, frag, speed>>

\* let _ = writer.shutdown().await, after the loop.
RelayShutdown ==
  /\ relay.st = "closing"
  /\ relay' = [relay EXCEPT !.st = "shut"]
  /\ UNCHANGED <<manager, traffic, repo, sel, udp, sess, frag, speed>>

\* The five-minute timeout around both directions fires, or the forwarder
\* is aborted: the future is dropped where it waits, a write in progress
\* after j of its bytes.
RelayDropped(j) ==
  /\ relay.st \in {"read", "write", "closing"}
  /\ j <= (IF relay.st = "write" THEN relay.n ELSE 0)
  /\ relay' = [relay EXCEPT !.wr = write_all(@, relay.buffer, j),
                            !.st = "dropped"]
  /\ UNCHANGED <<manager, traffic, repo, sel, udp, sess, frag, speed>>

\* let mut buffer = vec![0u8; buffer_size]; nothing is read yet.
RelayInit ==
  /\ PathsBase
  /\ sess = NoSession
  /\ \E s \in Streams :
       relay = [st |-> "read", whole |-> s, src |-> s,
                buffer |-> [i \in 1..BufferSize |-> 0], n |-> 0,
                rd |-> <<>>, wr |-> <<>>]
  /\ frag = NoPayload
  /\ speed = NoTick

RelayNext ==
  \/ \E k \in 0..BufferSize : RelayRead(k)
  \/ \E j \in 0..BufferSize : RelayWrite(j)
  \/ RelayFlushFails
  \/ RelayShutdown
  \/ \E j \in 0..BufferSize : RelayDropped(j)

RelaySpec == RelayInit /\ [][RelayNext]_vars

\* ------------------------------------------- one payload of a UDP session
\* The first select! branch of create_target_session for one datagram of
\* len bytes.  sent: the sizes of the sends to the target that succeeded,
\* in order; offset: the position of the fragment loop; st: "send" before
\* the send of the whole payload, "fragment" inside the while loop,
\* "alive" when the session is back at its select!, "ended" when the
\* branch has broken the session loop.
Platforms == {"linux", "macos"}
Payloads == {1, 8192, 16000, 16001, 16384, 20000, 24576, 32768, 49152, 65507}
SendErrors == {"EMSGSIZE", "ECONNREFUSED"}

\* e.raw_os_error(): the number the platform gives the error (errno.h of
\* Linux; sys/errno.h of macOS and the BSDs).
raw_os_error(platform, e) ==
  CASE e = "EMSGSIZE" -> IF platform = "linux" THEN 90 ELSE 40
    [] e = "ECONNREFUSED" -> IF platform = "linux" THEN 111 ELSE 61

\* target_socket.send(&data) of the whole payload returns e ("ok" or an
\* error): a failed send of a large payload is met by fragments when its
\* code is FragmentCode, every other failed send breaks the session loop.
PayloadSend(e) ==
  /\ frag.st = "send"
  /\ frag' =
       IF e = "ok"
         THEN [frag EXCEPT !.st = "alive", !.sent = Append(@, frag.len)]
       ELSE IF frag.len > LargePayload /\ raw_os_error(frag.platform, e) = FragmentCode
         THEN [frag EXCEPT !.st = "fragment", !.offset = 0]
       ELSE [frag EXCEPT !.st = "ended"]
  /\ UNCHANGED <<manager, traffic, repo, sel, udp, sess, relay, speed>>

\* One turn of while offset < data.len(): the send of data[offset..end];
\* an error breaks the while loop, and only that loop.
FragmentSend(ok) ==
  /\ frag.st = "fragment"
  /\ LET end == Min({frag.offset + fragment_size, frag.len})
     IN frag' =
          IF ~ok THEN [frag EXCEPT !.st = "alive"]
          ELSE [frag EXCEPT !.sent = Append(@, end - frag.offset),
                            !.offset = end,
                            !.st = IF end < frag.len THEN "fragment" ELSE "alive"]
  /\ UNCHANGED <<manager, traffic, repo, sel, udp, sess, relay, speed>>

\* The session has received a datagram from its client channel.
PayloadInit ==
  /\ PathsBase
  /\ sess = NoSession
  /\ relay = NoRelay
  /\ \E p \in Platforms, l \in Payloads :
       frag = [st |-> "send", platform |-> p, len |-> l, offset |-> 0, sent |-> <<>>]
  /\ speed = NoTick

PayloadNext ==
  \/ \E e \in {"ok"} \cup SendErrors : PayloadSend(e)
  \/ \E ok \in BOOLEAN : FragmentSend(ok)

PayloadSpec == PayloadInit /\ [][PayloadNext]_vars

\* ------------------------------------------------ the speed of a tick
\* The speed a stats updater writes on a tick, from the speed of the entry
\* it read (prev), the bytes counted since the last tick and the
\* milliseconds since then.  saturating_mul and saturating_div are the
\* plain product and quotient: the speeds below stay far from u64::MAX / 40.

\* The decay of an idle tick with its thresholds taken inclusive.
tcp_speed_inclusive(prev, bytes, elapsed_ms) ==
  IF elapsed_ms > 0 /\ bytes > 0 THEN (bytes * 1000) \div elapsed_ms
  ELSE IF bytes = 0
    THEN IF prev >= 1000000 THEN (prev * 40) \div 100
         ELSE IF prev >= 500000 THEN (prev * 30) \div 100
         ELSE IF prev >= 25000 THEN (prev * 20) \div 100
         ELSE IF prev >= 1000 THEN (prev * 10) \div 100
         ELSE (prev * 5) \div 100
  ELSE prev

\* The updater of a TCP connection.
tcp_speed(prev, bytes, elapsed_ms) ==
  IF elapsed_ms > 0 /\ bytes > 0 THEN (bytes * 1000) \div elapsed_ms
  ELSE IF bytes = 0
    THEN IF prev > 1000000 THEN (prev * 40) \div 100
         ELSE IF prev > 500000 THEN (prev * 30) \div 100
         ELSE IF prev > 25000 THEN (prev * 20) \div 100
         ELSE IF prev > 1000 THEN (prev * 10) \div 100
         ELSE (prev * 5) \div 100
  ELSE prev

\* The updater of a UDP forwarder.
udp_speed(prev, bytes, elapsed_ms) ==
  IF elapsed_ms > 0 /\ bytes > 0 THEN (bytes * 1000) \div elapsed_ms
  ELSE IF bytes = 0
    THEN IF prev > 1000000 THEN (prev * 40) \div 100
         ELSE IF prev > 500000 THEN (prev * 30) \div 100
         ELSE IF prev > 25000 THEN (prev * 20) \div 100
         ELSE IF prev > 1000 THEN (prev * 10) \div 100
         ELSE (prev * 5) \div 100
  ELSE prev

Speeds == {0, 1, 19, 20, 999, 1000, 1001, 25000, 25001, 500000, 500001,
           1000000, 1000001, 2500000}
ByteCounts == {0, 1, 1500, 65535, 2000000}
Elapsed == {0, 1, 999, 1000, 1001}

\* A tick of the updater of a TCP connection: speed, as it is inserted.
TcpTick ==
  /\ speed.st \in {"tick", "udp"}
  /\ speed' = [speed EXCEPT !.tcp = tcp_speed(speed.prev, speed.bytes, speed.elapsed),
                            !.st = IF @ = "tick" THEN "tcp" ELSE "both"]
  /\ UNCHANGED <<manager, traffic, repo, sel, udp, sess, relay, frag>>

\* The same tick in the updater of a UDP forwarder.
UdpTick ==
  /\ speed.st \in {"tick", "tcp"}
  /\ speed' = [speed EXCEPT !.udp = udp_speed(speed.prev, speed.bytes, speed.elapsed),
                            !.st = IF @ = "tick" THEN "udp" ELSE "both"]
  /\ UNCHANGED <<manager, traffic, repo, sel, udp, sess, relay, frag>>

\* An updater of either kind has read the entry, swapped the byte counter
\* and taken the elapsed time.
SpeedInit ==
  /\ PathsBase
  /\ sess = NoSession
  /\ relay = NoRelay
  /\ frag = NoPayload
  /\ \E p \in Speeds, b \in ByteCounts, e \in Elapsed :
       speed = [st |-> "tick", prev |-> p, bytes |-> b, elapsed |-> e,
                tcp |-> 0, udp |-> 0]

SpeedNext == TcpTick \/ UdpTick

SpeedSpec == SpeedInit /\ [][SpeedNext]_vars

\* The runtime schedules every task that can run: the polling loop, the
\* request handler and each forwarder take the step they are ready for.
\* The operator owes no request.
LoadStep ==
  \/ LoadFindAll
  \/ LoadLock
  \/ StartFind("lr") \/ StartSpawn("lr") \/ StartStatus("lr")
  \/ StopLock("lr") \/ StopStatus("lr") \/ StopFinish("lr")

RestartStep ==
  \/ StartFind("api") \/ StartSpawn("api") \/ StartStatus("api")
  \/ StopLock("api") \/ StopStatus("api") \/ StopFinish("api")

TaskStep ==
  \/ \E h \in Handles, kind \in {"tcp", "udp"}, busy \in BOOLEAN : TaskBind(h, kind, busy)
  \/ \E h \in Handles, kind \in {"tcp", "udp"} : TaskDrop(h, kind)

FairSpec ==
  Spec /\ WF_vars(LoadStep) /\ WF_vars(RestartStep) /\ WF_vars(TaskStep)

\* A tick with work of both kinds.  Rule 1 was created disabled and rule 2
\* enabled; a tick started rule 2, which is supervised and listens.  Since
\* then the operator has changed the target or the config of rule 2 and, if
\* e, enabled rule 1.  One request (a restart) is left to the operator.
TickInit ==
  \E l \in Ports, e \in BOOLEAN,
     u \in {[f |-> "target", v |-> 2], [f |-> "config", v |-> 1]} :
    LET was == Rule(2, 1, "Tcp", 0, "n1", TRUE, "Running")
        before == [id \in RuleIds |->
                     IF id = 1 THEN Rule(l, 1, "Tcp", 0, "n1", e, "Stopped") ELSE was]
    IN /\ db = update(before, 2, u)
       /\ nextId = 3
       /\ rules = wanted_rules([before EXCEPT ![1].enabled = FALSE])
       /\ tasks = [r \in RuleIds |-> IF r = 2 THEN 1 ELSE 0]
       /\ fw = [h \in Handles |->
                  IF h = 1 THEN [SpawnFor(2, was) EXCEPT !.tcp = "bound"] ELSE NoTask]
       /\ rulesLock = "free"
       /\ tasksLock = "free"
       /\ pc = [p \in Procs |-> "idle"]
       /\ arg = [p \in Procs |-> 0]
       /\ ret = [p \in Procs |-> "idle"]
       /\ found = [p \in Procs |-> NoFound]
       /\ task = [p \in Procs |-> 0]
       /\ db_rules = NoSnapshot
       /\ cursor = 0
       /\ constructed = TRUE
       /\ ops = MaxOps - 1
       /\ limit = [rule |-> {}, agent |-> {}]
       /\ NoTraffic
       /\ RestIdle

\* The polling loop, a restart by the operator, and the forwarders.
TickNext ==
  \/ LoadFindAll
  \/ LoadFindAllFails
  \/ LoadLock
  \/ \E p \in Procs : StartFind(p)
  \/ \E p \in Procs : StartSpawn(p)
  \/ \E p \in Procs : StartStatus(p)
  \/ \E p \in Procs : StopLock(p)
  \/ \E p \in Procs : StopStatus(p)
  \/ \E p \in Procs : StopFinish(p)
  \/ \E id \in RuleIds : ApiRestart(id)
  \/ \E h \in Handles, kind \in {"tcp", "udp"}, busy \in BOOLEAN : TaskBind(h, kind, busy)
  \/ \E h \in Handles, kind \in {"tcp", "udp"} : TaskDrop(h, kind)

TickSpec == TickInit /\ [][TickNext]_vars

\* The data plane of a listening rule on its own.
HandlerInit ==
  /\ Listening
  /\ limit \in Limits
  /\ NoTraffic
  /\ RestIdle

HandlerNext ==
  \/ \E h \in Handles : Accept(h)
  \/ \E c \in Conns : HandlerGet(c)
  \/ \E c \in Conns : IncPut(c)
  \/ \E c \in Conns, ok \in BOOLEAN : Connect(c, ok)
  \/ \E c \in Conns : Relay(c)
  \/ \E c \in Conns : RelayEnds(c)
  \/ \E c \in Conns, checked \in BOOLEAN : DecPut(c, checked)
  \/ \E c \in Conns : UpdGet(c)
  \/ \E c \in Conns : UpdPut(c)

\* The runtime schedules the handler of connection c; the cache answers; a
\* relay that has not ended by itself is ended by the five minute cap.
HandlerStep(c) ==
  \/ HandlerGet(c)
  \/ IncPut(c)
  \/ RelayEnds(c)
  \/ \E checked \in BOOLEAN : DecPut(c, checked)

FairHandlerSpec ==
  HandlerInit /\ [][HandlerNext]_vars /\ \A c \in Conns : WF_vars(HandlerStep(c))

\* ----------------------------------------------------------------- claims
\* A forwarder task that runs and that nobody has aborted.
Live(c) == c \in {"starting", "bound"}
LiveFor(id) == {h \in Handles : fw[h].rule = id /\ (Live(fw[h].tcp) \/ Live(fw[h].udp))}
TaskKeys == {id \in RuleIds : tasks[id] # 0}

\* A step of the polling loop; the step with which load_rules ends.
LoadMoved == pc'["lr"] # pc["lr"] \/ arg'["lr"] # arg["lr"]
TickEnds == pc["lr"] # "idle" /\ pc'["lr"] = "idle"
\* load_rules calls stop_rule / start_rule for id with this step.
LoadCalls(fn, id) == LoadMoved /\ pc'["lr"] = fn /\ arg'["lr"] = id
\* The handle registered for id is that of a forwarder that listens.
Serving(id) ==
  /\ tasks[id] # 0
  /\ fw[tasks[id]].tcp = "bound" \/ fw[tasks[id]].udp = "bound"

\* No handle is free: the bound on forwarder instances is reached.
Exhausted == FreeHandles = {}

\* C1: for every rule id at most one forwarder the manager started is alive
\* (the pair of a TcpUdp rule counts once).
C1_AtMostOneForwarder ==
  \A id \in RuleIds : Cardinality(LiveFor(id)) <= 1

\* C2: a supervised running rule that is disabled or deleted is stopped
\* within one tick: load_rules completes with the id in neither table.
C2_DisabledIsStopped ==
  \A id \in RuleIds :
    (/\ pc["lr"] = "idle" /\ id \in Supervised(rules) /\ Serving(id)
     /\ MustStop(db, id))
    ~> (\/ pc["lr"] = "idle" /\ id \notin Supervised(rules) /\ tasks[id] = 0
        \/ ~MustStop(db, id))

\* C3: when a tick completes, no rule that its snapshot and the store show
\* disabled has a live forwarder.
C3_NoTaskForDisabled ==
  [][TickEnds =>
       \A id \in RuleIds :
         (db_rules[id].present /\ ~db_rules[id].enabled
          /\ db'[id].present /\ ~db'[id].enabled) => LiveFor(id)' = {}]_vars

\* C4: once the manager is constructed, a persisted rule with status Running
\* has an entry in the task table.
C4_RunningHasTask ==
  constructed =>
    \A id \in RuleIds :
      (db[id].present /\ db[id].status = "Running") => tasks[id] # 0

\* C5: load_rules never calls start_rule for a rule whose persisted status
\* is Error.
C5_ErrorNotStarted ==
  [][\A id \in RuleIds :
       LoadCalls("start_find", id) => db'[id].status # "Error"]_vars

\* C6: a status Error stays Error until an operator action (a repository
\* call of the operator, or a step of the restart the operator asked for).
C6_ErrorIsSticky ==
  [][\A id \in RuleIds :
       (db[id].present /\ db[id].status = "Error" /\ db'[id].status # "Error")
         => (ops' # ops \/ pc'["api"] # pc["api"])]_vars

\* C7: an enabled rule not in Error and not supervised is started by a tick:
\* handle recorded, in the supervised list.
Eligible(id) ==
  /\ constructed /\ db[id].present /\ db[id].enabled
  /\ db[id].status # "Error" /\ id \notin Supervised(rules)

C7_EligibleIsStarted ==
  \A id \in RuleIds :
    Eligible(id) ~>
      (\/ id \in Supervised(rules) /\ tasks[id] # 0
       \/ ~(db[id].present /\ db[id].enabled /\ db[id].status # "Error")
       \/ Exhausted)

\* C8: a supervised running rule whose digest changed is restarted in place
\* by the next tick: the supervised list holds the new digest.
Changed(id) ==
  /\ id \in Supervised(rules) /\ Serving(id)
  /\ Wanted(db[id]) /\ db[id].status = "Running"
  /\ DigestOf(rules, id) # digest_config(db[id])

C8_ChangedIsRestarted ==
  \A id \in RuleIds :
    (pc["lr"] = "idle" /\ Changed(id)) ~>
      (\/ pc["lr"] = "idle" /\ id \in Supervised(rules) /\ tasks[id] # 0
          /\ DigestOf(rules, id) = digest_config(db[id])
       \/ ~Wanted(db[id])
       \/ Exhausted)

\* C9: while the rule a tick sees differs from the rule that was supervised
\* at most in its name, load_rules neither stops nor starts it and the
\* handle in the task table stays.
SameButName(id) ==
  /\ id \in Supervised(rules)
  /\ db_rules[id].present /\ db_rules[id].enabled
  /\ \E n \in Names :
       DigestOf(rules, id) = digest_config([db_rules[id] EXCEPT !.name = n])

C9_NameChangeKeepsTask ==
  [][\A id \in RuleIds :
       (LoadMoved /\ pc["lr"] # "idle" /\ SameButName(id)) =>
         /\ ~LoadCalls("stop_lock", id)
         /\ ~LoadCalls("start_find", id)
         /\ tasks'[id] = tasks[id]]_vars

\* The tick is past rule 1 of a snapshot that has it renamed, and has left
\* its live task alone.
C9_Witness ==
  /\ pc["lr"] = "start_find" /\ arg["lr"] = 2
  /\ db_rules[1].name = "n2" /\ SameButName(1)
  /\ tasks[1] # 0 /\ fw[tasks[1]].tcp = "bound"

\* C10: when a tick completes, every id of the task table is in the
\* supervised list.
C10_TasksAreSupervised ==
  [][TickEnds => \A id \in RuleIds : tasks'[id] # 0 => id \in Supervised(rules')]_vars

\* stop_rule of thread p returns with this step.
StopReturns(p) == pc[p] = "stop_finish" /\ pc'[p] # "stop_finish"

\* C11: when a tick completes, every id of the supervised list is a
\* persisted rule that is enabled and not in Error in the store at that moment.
C11_SupervisedAreWanted ==
  [][TickEnds => \A id \in Supervised(rules') : Wanted(db'[id])]_vars

\* C12: when stop_rule(id) returns, id is in neither table, the status of a
\* persisted rule is Stopped, and the result is Err exactly when no task was
\* registered (restart_rule goes on to start_rule exactly on Ok).
C12_StopLeavesStopped ==
  [][\A p \in Procs :
       StopReturns(p) =>
         /\ tasks'[arg[p]] = 0
         /\ arg[p] \notin Supervised(rules')
         /\ db'[arg[p]].present => db'[arg[p]].status = "Stopped"
         /\ (p = "api") => ((pc'[p] = "start_find") <=> (task[p] # 0))]_vars

\* restart_rule(id) has been called, as the operator's last request, on a
\* rule that is supervised, enabled, Running and whose forwarder listens.
RestartCalled(id) ==
  /\ pc["api"] = "stop_lock" /\ arg["api"] = id /\ ops = MaxOps
  /\ id \in Supervised(rules) /\ Serving(id)
  /\ Wanted(db[id]) /\ db[id].status = "Running"

\* restart_rule has returned and left the rule enabled, Running and with a
\* handle in the task table.
Restarted(id) ==
  /\ pc["api"] = "idle" /\ tasks[id] # 0
  /\ Wanted(db[id]) /\ db[id].status = "Running"

\* C13: after a restart of a supervised running rule, the rule is in the
\* supervised list whenever it is persisted as Running, so that no later
\* tick takes it for a rule to start.
C13_RestartKeepsSupervised ==
  \A id \in RuleIds :
    [](RestartCalled(id) => [](Restarted(id) => id \in Supervised(rules)))

\* C14: the forwarders of a TcpUdp rule do not outlive their supervisor:
\* once a child has completed, or stop_rule has aborted the supervisor,
\* neither child runs on.
C14_ChildrenEndWithSupervisor ==
  [][\A h \in Handles :
       (/\ fw'[h].protocol = "TcpUdp"
        /\ \/ fw'[h].tcp = "exited"
           \/ fw'[h].udp = "exited"
           \/ \E p \in Procs : StopReturns(p) /\ task[p] = h)
         => ~Live(fw'[h].tcp) /\ ~Live(fw'[h].udp)]_vars

\* The cap the limits stand for: the least of those that are set.
EffectiveCap ==
  IF limit.rule \cup limit.agent = {} THEN {}
  ELSE {Min(limit.rule \cup limit.agent)}

HandlersOf(h) == {c \in Conns : conn[c].owner = h /\ HandlerAlive(conn[c])}

\* The forwarder task behind handle h is there: listening, or aborted and
\* not yet dropped by the runtime.
ForwarderThere(h) == fw[h].tcp \in {"bound", "cancelling"}

\* C15: once an aborted forwarder is gone, no connection handler and no
\* stats updater it gave rise to runs.
C15_NothingOutlivesForwarder ==
  \A c \in Conns :
    (HandlerAlive(conn[c]) \/ upd[c].st # "none") => ForwarderThere(conn[c].owner)

\* C16: a forwarder with effective cap n never has more than n connection
\* handlers alive, and a connection it turned away has no handler.
C16_HandlersWithinCap ==
  /\ \A h \in Handles : \A n \in EffectiveCap : Cardinality(HandlersOf(h)) <= n
  /\ \A c \in Conns : conn[c].st = "rejected" => upd[c] = NoUpd /\ conn[c].prev = NoEntry

\* A connection was turned away because the cap's handlers were all alive.
C16_Witness ==
  \E c \in Conns : \E n \in EffectiveCap :
    /\ conn[c].st = "rejected"
    /\ Cardinality(HandlersOf(conn[c].owner)) = n

\* C17: with an effective cap n the cached connections.tcp of the rule never
\* exceeds n.
C17_CountWithinCap ==
  \A id \in RuleIds : \A n \in EffectiveCap : cache[id].tcp <= n

\* C18: a handler that has incremented connections.tcp returns only through
\* the decrement.
C18_ExitDecrements ==
  [][\A c \in Conns :
       (conn[c].st \in {"connect", "relay", "dec_get", "dec_put"}
        /\ conn'[c].st = "closed")
         => /\ conn[c].st = "dec_put"
            /\ cache'[conn[c].rule].tcp = conn[c].prev.tcp - 1]_vars

\* C19: the cached bandwidth of a rule never decreases (no reset happens).
C19_BandwidthMonotonic ==
  [][\A id \in RuleIds : cache'[id].bandwidth >= cache[id].bandwidth]_vars

\* C20: right after flush_stats, the persisted bandwidth of every rule that
\* is persisted and cached equals the cached one.
C20_FlushedEqualsCached ==
  [][flushes' # flushes =>
       \A id \in RuleIds :
         (cache'[id].present /\ db'[id].present)
           => db_stats'[id] = cache'[id].bandwidth]_vars

\* C21: a reset changes the cache and leaves the repository alone, and a
\* flush_stats that finds the zero stats a reset left in the cache of a
\* persisted rule makes the persisted bandwidth of that rule zero.
C21_ResetIsFlushed ==
  [][/\ (\E id \in RuleIds : reset_stat(id)) \/ reset_stats
          => db_stats' = db_stats /\ db' = db
     /\ flushes' # flushes =>
          \A id \in RuleIds :
            (cache[id] = DefaultStats /\ db[id].present) => db_stats'[id] = 0]_vars

\* No repository call is under way.
Quiescent == \A c \in Callers : req[c].st = "idle"

Occurrences(ids, id) == Cardinality({i \in 1..Len(ids) : ids[i] = id})

\* C22: after a create and a delete that ran concurrently, the index holds
\* the id of every stored rule exactly once and no other id.
C22_IndexMatchesKeys ==
  (/\ Quiescent
   /\ calls = 2
   /\ \A c \in Callers : req[c].op \in {"create", "delete"})
    => \A id \in RuleIds :
         Occurrences(index, id) = IF store[id].present THEN 1 ELSE 0

\* C23: a find_all during which no other call runs and the index does not
\* change returns the ids of the index, in index order.
C23_FindAllIsIndex ==
  [][\A c \in Callers :
       (/\ req[c].st = "find_rules" /\ req'[c].st = "idle"
        /\ \A d \in Callers \ {c} : req[d].st = "idle"
        /\ req[c].ids = index)
         => req'[c].out = index]_vars

\* C24: the write of update_status changes the status of the stored rule and
\* nothing else, that of update_stats its stats and nothing else; on an
\* absent id both return NotFound and leave the store as it is.
C24_FieldScoped ==
  [][\A c \in Callers :
       /\ (req[c].st = "rule_insert" /\ req'[c].st = "idle"
           /\ req[c].op \in {"update_status", "update_stats"}
           /\ store[req[c].id].present)
            => store' = [store EXCEPT ![req[c].id] =
                           IF req[c].op = "update_status"
                           THEN [@ EXCEPT !.status = req[c].status]
                           ELSE [@ EXCEPT !.stats = req[c].stats]]
       /\ (req[c].st = "idle" /\ req'[c].op \in {"update_status", "update_stats"}
           /\ req'[c] # req[c] /\ ~store[req'[c].id].present)
            => store' = store /\ req'[c].res = "NotFound"]_vars

\* C25: the k-th selection of a rule is the one its policy yields for
\* counter value k - 1: addrs[0] under Fallback, addrs[(k - 1) mod len] under
\* RoundRobin, and always an index below len.
C25_TargetFollowsPolicy ==
  \A k \in 1..Len(picks) :
    /\ picks[k].index < addrs
    /\ policy \in {"Fallback", "RoundRobin"}
         => picks[k].index \in select_target(policy, addrs, k - 1)

\* C26: a datagram for a client whose session channel is full makes the
\* ingress loop drop the client's entry, and the ingress loop never waits
\* inside send with the client table locked.
C26_FullChannelDropsSession ==
  [][/\ \A a \in UdpClients :
          (Receive(a) /\ clients[a].present /\ chan[a].open /\ chan[a].len = ChannelCap)
            => ~clients'[a].present
     /\ ~ClientsLocked']_vars

AtCap(h) ==
  /\ \E n \in EffectiveCap : Cardinality(HandlersOf(h)) = n
  /\ \A c \in HandlersOf(h) : conn[c].st \in {"relay", "dec_get", "dec_put"}

\* C28: a handler whose connect has returned terminates, and a forwarder
\* whose handlers hold all permits of its cap gets a permit back.
C28_HandlerTerminates ==
  /\ \A c \in Conns : (conn[c].st = "relay") ~> ~HandlerAlive(conn[c])
  /\ \A h \in Handles : AtCap(h) ~> (Cardinality(HandlersOf(h)) \notin EffectiveCap)

\* With cap 1, connection 1 was relayed and closed, and connection 2 got the
\* permit after it.
C28_Witness ==
  /\ EffectiveCap = {1}
  /\ conn[1].st = "closed" /\ upd[1].st # "none"
  /\ HandlerAlive(conn[2]) /\ conn[2].owner = conn[1].owner

\* C29: a load_rules that has taken its snapshot reaches its end: the
\* polling loop is back at the top of its loop, the lock on the supervised
\* list released.
C29_TickTerminates ==
  (pc["lr"] = "lr_lock") ~> (pc["lr"] = "idle" /\ rulesLock # "lr")

\* The rules load_rules has called start_rule for in this tick when its
\* loop over the snapshot is at rule id: those before id that are enabled
\* and not supervised (the supervised list does not change during a tick).
StartedBefore(id) ==
  {j \in Visited(db_rules) : j < id /\ MustStart(db_rules, rules, j)}

\* C30: when load_rules calls stop_rule for a changed rule, it has called
\* start_rule for no rule in this tick.
C30_StopsBeforeStarts ==
  [][\A id \in RuleIds :
       (LoadCalls("stop_lock", id) /\ ret'["lr"] = "lr_restart")
         => StartedBefore(id) = {}]_vars

\* C31: start_rule(id) fails with "rule not found" when the rule is not
\* persisted and with "rule is disabled" when its enabled flag is false,
\* and in both cases the call is over without reaching the spawn: no task
\* is created, and the task table, the persisted rules and the supervised
\* list are as before (the list changes in that step only when the failed
\* call was the last of a load_rules, which then replaces it).
StartFails(p) ==
  /\ StartFind(p)
  /\ ~db[arg[p]].present \/ ~db[arg[p]].enabled

C31_StartFailsCleanly ==
  [][\A p \in Procs :
       StartFails(p) =>
         /\ start_rule_error(db[arg[p]]) =
              (IF ~db[arg[p]].present THEN "rule not found" ELSE "rule is disabled")
         /\ pc'[p] # "start_spawn"
         /\ fw' = fw /\ tasks' = tasks /\ task' = task /\ db' = db
         /\ rules' = rules \/ (p = "lr" /\ TickEnds)]_vars

\* The api thread is back from a restart_rule of rule 1, which every
\* initial load_rules starts: its stop_rule removed the task and its
\* start_rule found the rule disabled.
C31_Witness ==
  /\ constructed /\ pc["api"] = "idle"
  /\ db[1].present /\ ~db[1].enabled
  /\ tasks[1] = 0

\* C32: when the construction of the ForwardManager seeds the stats cache
\* (after its load_rules), the seeding gives every persisted rule an entry
\* with the persisted bandwidth and, where the cache had no entry,
\* connections reset to zero; it discards no write that a forwarder started
\* by that load_rules has made to the cache: a connection count that a
\* handler has incremented is still there after the seeding.
C32_SeedKeepsForwarderWrites ==
  [][Seed =>
       \A id \in RuleIds :
         /\ db[id].present =>
              /\ cache'[id].present
              /\ cache'[id].bandwidth = db_stats[id]
              /\ ~cache[id].present => cache'[id].tcp = 0
         /\ cache[id].present => cache'[id].tcp = cache[id].tcp]_vars

\* C33: a UDP session task ends as soon as either its client channel closes
\* (its entry was evicted or removed from the client table) or its response
\* channel closes: a running session one of whose channels is closed relays
\* nothing more in either direction, so a session whose table entry is gone
\* does not keep relaying; and a session that has ended has no running
\* target receiver.
C33_SessionEndsWithChannel ==
  [][/\ (sess.st = "running" /\ (ClientClosed \/ ResponseClosed)) =>
          /\ sess'.toTarget = sess.toTarget
          /\ sess'.toClient = sess.toClient
     /\ sess'.st = "ended" => sess'.helper # "running"]_vars

\* C34: in a relay direction of a TCP connection the bytes written to the
\* destination are at all times a prefix of the bytes read from the source,
\* which are a prefix of what the source sent: no byte is duplicated or
\* reordered, a byte read is written once or not at all; a step writes
\* only bytes of the last read; and when the loop has exited, the next
\* step of the direction is the shutdown of the destination's write half
\* (unless the whole handler is dropped), with nothing more written.
C34_WrittenIsPrefixOfRead ==
  [][/\ IsPrefix(relay'.wr, relay'.rd)
     /\ IsPrefix(relay'.rd, relay'.whole)
     /\ relay'.rd \o relay'.src = relay'.whole
     /\ IsPrefix(relay.wr, relay'.wr)
     /\ relay.st = "closing" =>
          /\ relay'.st \in {"shut", "dropped"}
          /\ relay'.wr = relay.wr]_vars

\* A direction has read the whole stream in two reads, has written it all
\* and its write half is shut down.
C34_Witness ==
  /\ relay.st = "shut"
  /\ Len(relay.whole) = MaxStream
  /\ relay.wr = relay.whole
  /\ relay.n = 1

\* C35: when the send of a session payload larger than 16,000 bytes is
\* rejected with EMSGSIZE, the session sends the payload as consecutive
\* fragments of at most 8,192 bytes, in order, which together are the
\* payload (20,000 bytes: 8,192, 8,192, 3,616); the first failed fragment
\* send stops the fragments and leaves the session running; any other send
\* error, and any send error for a payload of at most 16,000 bytes, ends
\* the session.
RECURSIVE SumOf(_)
SumOf(s) == IF s = <<>> THEN 0 ELSE Head(s) + SumOf(Tail(s))

C35_LargePayloadIsFragmented ==
  [][/\ \A e \in SendErrors :
          PayloadSend(e) =>
            IF e = "EMSGSIZE" /\ frag.len > 16000
              THEN frag'.st = "fragment" /\ frag'.sent = <<>>
              ELSE frag'.st = "ended" /\ frag'.sent = <<>>
     /\ FragmentSend(TRUE) =>
          /\ frag'.sent = Append(frag.sent, Min({8192, frag.len - SumOf(frag.sent)}))
          /\ frag'.st = IF SumOf(frag'.sent) = frag.len THEN "alive" ELSE "fragment"
          /\ frag.len = 20000 /\ frag'.st = "alive" => frag'.sent = <<8192, 8192, 3616>>
     /\ FragmentSend(FALSE) => frag'.st = "alive" /\ frag'.sent = frag.sent]_vars

\* C36: on a stats-updater tick the new speed is bytes * 1000 / elapsed_ms
\* when bytes > 0 and elapsed_ms > 0; the previous speed when bytes > 0 and
\* elapsed_ms = 0; and when bytes = 0 the previous speed times 40/100,
\* 30/100, 20/100, 10/100 or 5/100 (integer division) for a previous speed
\* above 1,000,000, above 500,000, above 25,000, above 1,000, or otherwise.
\* The TCP and the UDP updater compute the same.
SpeedReference(prev, bytes, elapsed_ms) ==
  CASE bytes > 0 /\ elapsed_ms > 0 -> (bytes * 1000) \div elapsed_ms
    [] bytes > 0 /\ elapsed_ms = 0 -> prev
    [] bytes = 0 /\ prev > 1000000 -> (prev * 40) \div 100
    [] bytes = 0 /\ prev <= 1000000 /\ prev > 500000 -> (prev * 30) \div 100
    [] bytes = 0 /\ prev <= 500000 /\ prev > 25000 -> (prev * 20) \div 100
    [] bytes = 0 /\ prev <= 25000 /\ prev > 1000 -> (prev * 10) \div 100
    [] bytes = 0 /\ prev <= 1000 -> (prev * 5) \div 100

C36_SpeedIsReference ==
  LET ref == SpeedReference(speed.prev, speed.bytes, speed.elapsed)
  IN /\ speed.st \in {"tcp", "both"} => speed.tcp = ref
     /\ speed.st \in {"udp", "both"} => speed.udp = ref
     /\ speed.st = "both" => speed.tcp = speed.udp

\* Both updaters have computed the idle tick of an entry whose speed was
\* exactly 1,000,000: the 30/100 step, 300,000.
C36_Witness ==
  /\ speed.st = "both"
  /\ speed.prev = 1000000 /\ speed.bytes = 0
  /\ speed.tcp = 300000 /\ speed.udp = 300000

\* C37: the stats-updater task of a TCP connection stops when the
\* connection's handler exits: an updater task exists only while the
\* handler of its connection runs, so a rule never has more live updaters
\* than live connections, and the updater of a finished connection does
\* not write the stats cache.
C37_UpdaterEndsWithHandler ==
  [][\A c \in Conns :
       /\ upd'[c].st # "none" => HandlerAlive(conn'[c])
       /\ ~HandlerAlive(conn[c]) => ~UpdPut(c)]_vars

\* C38: the decrement of connections.tcp at the exit of a handler is never
\* applied to a cached count of 0, whatever reset_stat, reset_stats or
\* another whole-entry write did to the entry while the connection was
\* live.
C38_DecrementAboveZero ==
  [][\A c \in Conns, checked \in BOOLEAN :
       DecPut(c, checked) => conn[c].prev.tcp > 0]_vars

\* C39: if find_all fails during a reconcile tick, the tick only logs the
\* error: load_rules calls neither stop_rule nor start_rule, stops no
\* forwarder, and ends with the supervised list and the task table as they
\* were before the tick.
FindAllFailed ==
  /\ pc["lr"] # "idle"
  /\ db_rules = NoSnapshot
  /\ \E id \in RuleIds : db[id].present

C39_FailedTickOnlyLogs ==
  [][(FindAllFailed /\ pc'["lr"] # pc["lr"]) =>
       /\ pc'["lr"] = "idle"
       /\ rules' = rules /\ tasks' = tasks /\ fw' = fw]_vars

\* C40: whenever a reconcile tick has completed, every rule that is then in
\* the supervised list with a live, listening forwarder has the persisted
\* status Running, also when the operator has called enable (which writes
\* status = Stopped) on a rule that was already running.
C40_SupervisedIsRunning ==
  [][TickEnds =>
       \A id \in Supervised(rules') :
         (tasks'[id] # 0 /\ "bound" \in {fw'[tasks'[id]].tcp, fw'[tasks'[id]].udp})
           => db'[id].status = "Running"]_vars

=============================================================================
